---- MODULE Spec2Model ----
(***************************************************************************)
(* The todo collection of the server (db/todoDb.js) as a state machine.    *)
(*                                                                         *)
(* A document is a record [title, completed, createdAt, updatedAt] with an *)
(* optional field "order": a document written before the ordering feature *)
(* has no such field.  Every request handler is an async function; it runs *)
(* up to its next await in one step, and each awaited driver call          *)
(* (updateMany, insertOne, find, deleteOne, each updateOne of a bulkWrite) *)
(* is one step of its own, so the steps of requests in flight interleave.  *)
(* A stored "order" is a number or absent (never null).                    *)
(*                                                                         *)
(* The controllers (controllers/todoController.js) validate the request    *)
(* body and map a BSONError of the id to the invalid-id answer; a request  *)
(* they reject returns before any driver call.  Strings (titles, the :id   *)
(* parameter) are sequences of characters.                                 *)
(***************************************************************************)
EXTENDS Integers, Sequences, FiniteSets, TLC

\* ObjectIds in use during a run, those of the legacy documents included
\* (ids are never reused).
MaxIds == 3
\* Documents left in the collection by the version without "order".
MaxLegacy == 3
\* The same two bounds for the specifications over a smaller collection.
MaxDocs == 2
\* The clock (new Date()) runs from 0 to MaxClock.
MaxClock == 1
\* Requests that can be in flight together.
MaxInflight == 2
\* Requests that start before the server is idle again.
MaxBurst == 2
\* createTodo is called while every order is below MaxShift.
MaxShift == 4
\* Calls of connectToDatabase during a run.
MaxCalls == 3
\* Handlers of the client that await a response together.
MaxPending == 2

Ids == 1..MaxIds
Slots == 1..MaxInflight
Callers == 1..MaxCalls
Pending == 1..MaxPending
\* A title is a string: a sequence of characters.
Titles == {<<"A">>, <<"B">>}

VARIABLES
    store,    \* the collection: a function from the ids present to documents
    now,      \* the value new Date() returns
    nextId,   \* the next ObjectId insertOne generates
    reqs,     \* the requests in flight, one per slot
    done,     \* <<b, l>>: l is the last completed request; when l is a
              \* getAllTodos, b is the request completed before it
    log,      \* the calls and steps since the server was last idle: a call
              \* with the ids it was given, each entry with whether the
              \* orders were a dense rank before it
    client,   \* config/database.js `client`: 0 for null, n for the n-th
              \* MongoClient constructed
    db,       \* config/database.js `db`: 0 for null, n for a Db of client n
    clients,  \* the number of MongoClients constructed so far
    conn,     \* the calls of connectToDatabase: where each one is and what
              \* it returned
    server,   \* server.js: where startServer and gracefulShutdown are, and
              \* the code the process exited with
    app,      \* the client's App component: its state todos, isLoading, error
    calls     \* the client's handlers that await a response, each with the
              \* todos it closed over

\* The connection and the process.
process == <<client, db, clients, conn, server>>

\* The client.
ui == <<app, calls>>

vars == <<store, now, nextId, reqs, done, log, client, db, clients, conn, server,
          app, calls>>

----------------------------------------------------------------------------
(* Documents *)

HasOrder(d) == "order" \in DOMAIN d

\* { $set: { order: i } }
SetOrder(d, i) ==
    [title |-> d.title, completed |-> d.completed, order |-> i,
     createdAt |-> d.createdAt, updatedAt |-> d.updatedAt]

\* { $inc: { order: 2 } }
IncOrderByTwo(d) == IF HasOrder(d) THEN SetOrder(d, d.order + 2) ELSE SetOrder(d, 2)

\* { $inc: { order: 1 } }: a missing field is created with the increment.
IncOrder(d) == IF HasOrder(d) THEN SetOrder(d, d.order + 1) ELSE SetOrder(d, 1)

LegacyDoc(t, c, at) ==
    [title |-> t, completed |-> c, createdAt |-> at, updatedAt |-> at]

----------------------------------------------------------------------------
(* The rank the "order" fields form *)

Orders(st) == {st[i].order : i \in {j \in DOMAIN st : HasOrder(st[j])}}

\* Dense rank: every document has an order and the orders are 0..n-1.
Dense(st) ==
    /\ \A i \in DOMAIN st : HasOrder(st[i])
    /\ Orders(st) = 0..(Cardinality(DOMAIN st) - 1)

WithOrder(st, o) == {i \in DOMAIN st : HasOrder(st[i]) /\ st[i].order = o}

----------------------------------------------------------------------------
(* The driver calls *)

\* createTodo without its shift: the updateMany changes nothing.
updateManyNoShift(st) == st

\* collection.updateMany({}, { $inc: { order: 1 } }): every document present
\* when the call is served is incremented, in one step.
updateMany(st) == [i \in DOMAIN st |-> IncOrder(st[i])]

\* collection.insertOne(todo) with the generated id
insertOne(st, id, d) == [i \in DOMAIN st \cup {id} |-> IF i = id THEN d ELSE st[i]]

\* deleteOne whose filter matches the documents up to the one named.
deleteOneUpTo(st, id) == [i \in {j \in DOMAIN st : j > id} |-> st[i]]

\* collection.deleteOne({ _id })
deleteOne(st, id) == [i \in DOMAIN st \ {id} |-> st[i]]

\* updateOne with upsert: true: an absent id is inserted with the $set fields.
updateOneUpsert(st, op) ==
    IF op.id \in DOMAIN st
    THEN [st EXCEPT ![op.id] =
            IF op.touch THEN [SetOrder(@, op.order) EXCEPT !.updatedAt = op.at]
            ELSE SetOrder(@, op.order)]
    ELSE [i \in DOMAIN st \cup {op.id} |->
            IF i = op.id
            THEN [title |-> <<>>, completed |-> FALSE, order |-> op.order,
                  createdAt |-> op.at, updatedAt |-> op.at]
            ELSE st[i]]

\* updateOne whose filter matches every document the id list names or not:
\* the $set reaches the documents before the named one as well.
updateOneNoFilter(st, op) ==
    [i \in DOMAIN st |->
        IF i <= op.id
        THEN (IF op.touch THEN [SetOrder(st[i], op.order) EXCEPT !.updatedAt = op.at]
              ELSE SetOrder(st[i], op.order))
        ELSE st[i]]

\* One updateOne of a bulkWrite: no upsert, so an absent id matches nothing.
updateOne(st, op) ==
    IF op.id \notin DOMAIN st THEN st
    ELSE [st EXCEPT ![op.id] =
            IF op.touch THEN [SetOrder(@, op.order) EXCEPT !.updatedAt = op.at]
            ELSE SetOrder(@, op.order)]

\* sort({ order: -1 }): the order key sorted the wrong way round.
BeforeDescending(a, b) ==
    \/ HasOrder(a) /\ ~HasOrder(b)
    \/ HasOrder(a) /\ HasOrder(b) /\ a.order >= b.order
    \/ ~HasOrder(a) /\ ~HasOrder(b)

\* sort({ order: 1, createdAt: -1 }): a missing order sorts before every
\* number; equal orders are broken by createdAt, newest first.
Before(a, b) ==
    \/ ~HasOrder(a) /\ HasOrder(b)
    \/ HasOrder(a) /\ HasOrder(b) /\ a.order < b.order
    \/ /\ HasOrder(a) = HasOrder(b)
       /\ (HasOrder(a) => a.order = b.order)
       /\ a.createdAt >= b.createdAt

Perms(S) ==
    {s \in [1..Cardinality(S) -> S] : \A i, j \in 1..Cardinality(S) : s[i] = s[j] => i = j}

\* find({}).sort(...).toArray(): every sequence the sort admits (documents
\* that agree on both keys come in an order the store chooses).
SortedViews(st) ==
    {s \in Perms(DOMAIN st) :
        \A i \in 1..(Len(s) - 1) : Before(st[s[i]], st[s[i + 1]])}

----------------------------------------------------------------------------
(* config/database.js: the connection *)

NotCalled == [pc |-> "idle", ret |-> <<0, 0>>]

\* What the handlers of the requests leave alone.
requests == <<store, now, nextId, reqs, done, log>>

\* The process has not exited.
Alive == server.pc # "exited"

\* connectToDatabase, up to `await client.connect()`: with db set it returns
\* { client, db }; otherwise it constructs a MongoClient, assigns it to
\* client and awaits its connect().  srv is where the caller is left.
connectToDatabase(c, srv) ==
    /\ Alive /\ conn[c].pc = "idle"
    /\ IF db # 0
       THEN /\ conn' = [conn EXCEPT ![c] = [pc |-> "done", ret |-> <<client, db>>]]
            /\ UNCHANGED <<client, clients>>
       ELSE /\ clients' = clients + 1
            /\ client' = clients + 1
            /\ conn' = [conn EXCEPT ![c].pc = "connect"]
    /\ server' = srv
    /\ UNCHANGED db
    /\ UNCHANGED requests
    /\ UNCHANGED ui

\* client.connect() resolves: db = client.db(DB_NAME), with the client the
\* variable holds by now, and db.command({ ping: 1 }) is awaited.
connectResolves(c, srv) ==
    /\ Alive /\ conn[c].pc = "connect" /\ client # 0
    /\ db' = client
    /\ conn' = [conn EXCEPT ![c].pc = "ping"]
    /\ server' = srv
    /\ UNCHANGED <<client, clients>>
    /\ UNCHANGED requests
    /\ UNCHANGED ui

\* The ping resolves: connectToDatabase returns { client, db }.
pingResolves(c, srv) ==
    /\ Alive /\ conn[c].pc = "ping"
    /\ conn' = [conn EXCEPT ![c] = [pc |-> "done", ret |-> <<client, db>>]]
    /\ server' = srv
    /\ UNCHANGED <<client, db, clients>>
    /\ UNCHANGED requests
    /\ UNCHANGED ui

\* client.connect() or the ping rejects (or client is null by now): the
\* catch logs and rethrows; client and db stay as they are.
connectRejects(c, srv) ==
    /\ Alive /\ conn[c].pc \in {"connect", "ping"}
    /\ conn' = [conn EXCEPT ![c].pc = "failed"]
    /\ server' = srv
    /\ UNCHANGED <<client, db, clients>>
    /\ UNCHANGED requests
    /\ UNCHANGED ui

\* getDatabase(): throws while db is null, returns db otherwise.
getDatabase == [throws |-> db = 0, db |-> db]

----------------------------------------------------------------------------
(* Requests *)

\* An object without fields: {}.
NoFields == <<>>

Idle ==
    [op |-> "none", pc |-> "idle", ids |-> <<>>, title |-> <<>>, completed |-> FALSE,
     t0 |-> 0, todos |-> <<>>, missing |-> {}, ops |-> <<>>, k |-> 0,
     updates |-> NoFields]

\* What a completed request did and returned: err names the error the
\* controller answered with, thrown the error the database function threw,
\* read is what it read before it wrote.
NoOp ==
    [op |-> "none", ids |-> <<>>, ret |-> <<>>, ok |-> FALSE,
     missing |-> {}, wrote |-> {}, repaired |-> FALSE,
     err |-> "", thrown |-> "", updates |-> NoFields, read |-> <<>>]

Quiescent == \A r \in Slots : reqs[r].pc = "idle"

Calls(l) == Cardinality({i \in 1..Len(l) : l[i].call})

\* A request is taken by the lowest free slot.
CanCall(r) ==
    /\ server.pc = "listening"
    /\ reqs[r].pc = "idle"
    /\ \A q \in Slots : q < r => reqs[q].pc # "idle"
    /\ Quiescent \/ Calls(log) < MaxBurst

Called(r, name) ==
    LET e == [slot |-> r, step |-> name, call |-> TRUE, ids |-> reqs'[r].ids,
              dense |-> Dense(store)]
    IN  /\ log' = IF Quiescent THEN <<e>> ELSE Append(log, e)
        /\ UNCHANGED process
        /\ UNCHANGED ui

Stepped(r, name) ==
    /\ log' = Append(log, [slot |-> r, step |-> name, call |-> FALSE, ids |-> <<>>,
                           dense |-> Dense(store)])
    /\ UNCHANGED process
    /\ UNCHANGED ui

\* The request completed before sum is kept when sum is the answer to a
\* getAllTodos, to a getTodoById after a deleteTodo, or to the second of two
\* updates or of two toggles.
KeepsPrior(sum, before) ==
    \/ sum.op = "list"
    \/ sum.op = "get" /\ before.op = "delete"
    \/ sum.op \in {"update", "toggle"} /\ before.op = sum.op

Return(r, sum) ==
    /\ reqs' = [reqs EXCEPT ![r] = Idle]
    /\ done' = <<IF KeepsPrior(sum, done[2]) THEN done[2] ELSE NoOp, sum>>

OpIds(ops) == {ops[i].id : i \in 1..Len(ops)}

----------------------------------------------------------------------------
(* createTodo(todoData) *)

InFlightCreates == Cardinality({r \in Slots : reqs[r].op = "create"})

\* The ids a run may use are not exhausted by one more insertOne.
IdsLeft(max) == nextId + InFlightCreates <= max

\* The call, up to `await collection.updateMany`.
createTodoCall(r, t, c) ==
    /\ CanCall(r)
    /\ reqs' = [reqs EXCEPT ![r] =
                  [Idle EXCEPT !.op = "create", !.pc = "updateMany",
                               !.title = t, !.completed = c]]
    /\ Called(r, "createTodo")
    /\ UNCHANGED <<store, now, nextId, done>>

\* updateMany({}, { $inc: { order: 1 } }) takes effect.
createTodoShift(r) ==
    /\ reqs[r].op = "create" /\ reqs[r].pc = "updateMany"
    /\ store' = updateMany(store)
    /\ reqs' = [reqs EXCEPT ![r].pc = "insertOne", ![r].t0 = now]
    /\ Stepped(r, "updateMany")
    /\ UNCHANGED <<now, nextId, done>>

\* The new document is given order 1.
NewTodoAtOne(t, c, at, upd) ==
    [title |-> t, completed |-> c, order |-> 1, createdAt |-> at, updatedAt |-> upd]

\* The document built after the await, with its two new Date() readings.
NewTodo(t, c, at, upd) ==
    [title |-> t, completed |-> c, order |-> 0, createdAt |-> at, updatedAt |-> upd]

\* insertOne(todo) takes effect and createTodo returns the document.
createTodoInsert(r) ==
    /\ reqs[r].op = "create" /\ reqs[r].pc = "insertOne"
    /\ \E at \in reqs[r].t0..now : \E upd \in at..now :
          store' = insertOne(store, nextId,
                             NewTodo(reqs[r].title, reqs[r].completed, at, upd))
    /\ nextId' = nextId + 1
    /\ Return(r, [NoOp EXCEPT !.op = "create", !.ids = <<nextId>>, !.ok = TRUE])
    /\ Stepped(r, "insertOne")
    /\ UNCHANGED now

----------------------------------------------------------------------------
(* getAllTodos() *)

\* The array toArray() returns: each element carries "order" only when the
\* stored document does.
Fetched(st, s) ==
    [i \in 1..Len(s) |->
        IF HasOrder(st[s[i]]) THEN [id |-> s[i], order |-> st[s[i]].order]
        ELSE [id |-> s[i]]]

\* todos.forEach((todo, index) => { if (order missing) todo.order = index })
forEach(todos) ==
    [i \in 1..Len(todos) |->
        IF "order" \in DOMAIN todos[i] THEN todos[i]
        ELSE [id |-> todos[i].id, order |-> i - 1]]

\* needsUpdate set also when an order is not the index.
needsUpdateGaps(todos) ==
    \E i \in 1..Len(todos) : "order" \notin DOMAIN todos[i] \/ todos[i].order # i - 1

\* needsUpdate set on every call.
needsUpdateAlways(todos) == \E i \in 1..Len(todos) : TRUE

needsUpdate(todos) == \E i \in 1..Len(todos) : "order" \notin DOMAIN todos[i]

Missing(todos) == {todos[i].id : i \in {j \in 1..Len(todos) : "order" \notin DOMAIN todos[j]}}

\* todos.filter(todo => todo.order !== undefined).map(updateOne ...), taken
\* over the array as forEach left it.
listBulkOps(todos) ==
    LET Defined(t) == "order" \in DOMAIN t
        kept == SelectSeq(todos, Defined)
    IN  [i \in 1..Len(kept) |->
            [id |-> kept[i].id, order |-> kept[i].order, touch |-> FALSE, at |-> 0]]

getAllTodosCall(r) ==
    /\ CanCall(r)
    /\ reqs' = [reqs EXCEPT ![r] = [Idle EXCEPT !.op = "list", !.pc = "find"]]
    /\ Called(r, "getAllTodos")
    /\ UNCHANGED <<store, now, nextId, done>>

ListSummary(todos, missing, ops) ==
    [NoOp EXCEPT !.op = "list", !.ret = todos, !.ok = TRUE, !.missing = missing,
                 !.wrote = OpIds(ops), !.repaired = (missing # {})]

\* find().sort().toArray() answers; the handler runs forEach, builds the
\* bulk operations and either returns or awaits bulkWrite.
getAllTodosFind(r) ==
    /\ reqs[r].op = "list" /\ reqs[r].pc = "find"
    /\ \E s \in SortedViews(store) :
          LET raw == Fetched(store, s)
              todos == forEach(raw)
              ops == IF needsUpdate(raw) THEN listBulkOps(todos) ELSE <<>>
          IN  IF Len(ops) > 0
              THEN /\ reqs' = [reqs EXCEPT ![r].pc = "bulkWrite", ![r].todos = todos,
                                           ![r].missing = Missing(raw),
                                           ![r].ops = ops, ![r].k = 1]
                   /\ done' = done
              ELSE Return(r, ListSummary(todos, Missing(raw), ops))
    /\ Stepped(r, "find")
    /\ UNCHANGED <<store, now, nextId>>

----------------------------------------------------------------------------
(* reorderTodos(todoIds) *)

\* The map with positions counted from 1.
reorderBulkOpsFromOne(ids, at) ==
    [i \in 1..Len(ids) |-> [id |-> ids[i], order |-> i, touch |-> TRUE, at |-> at]]

\* todoIds.map((id, index) => updateOne { $set: { order: index, updatedAt } })
reorderBulkOps(ids, at) ==
    [i \in 1..Len(ids) |-> [id |-> ids[i], order |-> i - 1, touch |-> TRUE, at |-> at]]

reorderTodosCall(r, ids) ==
    /\ CanCall(r)
    /\ Len(ids) > 0
    /\ reqs' = [reqs EXCEPT ![r] =
                  [Idle EXCEPT !.op = "reorder", !.pc = "bulkWrite", !.ids = ids,
                               !.t0 = now, !.ops = reorderBulkOps(ids, now), !.k = 1]]
    /\ Called(r, "reorderTodos")
    /\ UNCHANGED <<store, now, nextId, done>>

----------------------------------------------------------------------------
(* collection.bulkWrite(bulkOps), for getAllTodos and reorderTodos: the     *)
(* operations are applied one after another, in the order of the array.    *)

BulkSummary(q) ==
    IF q.op = "list" THEN ListSummary(q.todos, q.missing, q.ops)
    ELSE [NoOp EXCEPT !.op = "reorder", !.ids = q.ids, !.ok = TRUE, !.wrote = OpIds(q.ops)]

\* A bulkWrite that gives up at the first update that matches no document
\* and reports the failure.
\* The operations are applied from the last to the first.
bulkWriteBackwards(r) ==
    /\ reqs[r].pc = "bulkWrite"
    /\ store' = updateOne(store, reqs[r].ops[Len(reqs[r].ops) + 1 - reqs[r].k])
    /\ IF reqs[r].k < Len(reqs[r].ops)
       THEN reqs' = [reqs EXCEPT ![r].k = @ + 1] /\ done' = done
       ELSE Return(r, BulkSummary(reqs[r]))
    /\ Stepped(r, "updateOne")
    /\ UNCHANGED <<now, nextId>>

bulkWriteStopsOnMiss(r) ==
    /\ reqs[r].pc = "bulkWrite"
    /\ store' = updateOne(store, reqs[r].ops[reqs[r].k])
    /\ IF reqs[r].ops[reqs[r].k].id \notin DOMAIN store
       THEN Return(r, [BulkSummary(reqs[r]) EXCEPT !.ok = FALSE])
       ELSE IF reqs[r].k < Len(reqs[r].ops)
            THEN reqs' = [reqs EXCEPT ![r].k = @ + 1] /\ done' = done
            ELSE Return(r, BulkSummary(reqs[r]))
    /\ Stepped(r, "updateOne")
    /\ UNCHANGED <<now, nextId>>

bulkWrite(r) ==
    /\ reqs[r].pc = "bulkWrite"
    /\ store' = updateOne(store, reqs[r].ops[reqs[r].k])
    /\ IF reqs[r].k < Len(reqs[r].ops)
       THEN reqs' = [reqs EXCEPT ![r].k = @ + 1] /\ done' = done
       ELSE Return(r, BulkSummary(reqs[r]))
    /\ Stepped(r, "updateOne")
    /\ UNCHANGED <<now, nextId>>

----------------------------------------------------------------------------
(* deleteTodo(id) *)

deleteTodoCall(r, id) ==
    /\ CanCall(r)
    /\ reqs' = [reqs EXCEPT ![r] =
                  [Idle EXCEPT !.op = "delete", !.pc = "deleteOne", !.ids = <<id>>]]
    /\ Called(r, "deleteTodo")
    /\ UNCHANGED <<store, now, nextId, done>>

\* deleteOne({ _id }) takes effect; the result is deletedCount > 0.
deleteTodoDelete(r) ==
    /\ reqs[r].op = "delete" /\ reqs[r].pc = "deleteOne"
    /\ store' = deleteOne(store, reqs[r].ids[1])
    /\ Return(r, [NoOp EXCEPT !.op = "delete", !.ids = reqs[r].ids,
                              !.ok = (reqs[r].ids[1] \in DOMAIN store)])
    /\ Stepped(r, "deleteOne")
    /\ UNCHANGED <<now, nextId>>

----------------------------------------------------------------------------
(* ObjectId.createFromHexString(id) *)

HexLen == 24
HexChars == <<"0", "1", "2", "3", "4", "5", "6", "7",
              "8", "9", "a", "b", "c", "d", "e", "f">>

HexSet == {HexChars[i] : i \in 1..Len(HexChars)}

\* The value of each hexadecimal digit.
HexDigit == [c \in HexSet |-> (CHOOSE i \in 1..Len(HexChars) : HexChars[i] = c) - 1]

\* The value of the first n characters of the string s (strings are
\* sequences of characters).
RECURSIVE HexPrefix(_, _)
HexPrefix(s, n) == IF n = 0 THEN 0 ELSE 16 * HexPrefix(s, n - 1) + HexDigit[s[n]]

HexValue(s) == HexPrefix(s, Len(s))

\* A string of any length is taken for an id.
IsHexAnyLength(s) == \A i \in 1..Len(s) : s[i] \in HexSet

\* createFromHexString throws a BSONError unless the string is HexLen
\* hexadecimal characters.
IsHex(s) == Len(s) = HexLen /\ \A i \in 1..Len(s) : s[i] \in HexSet

\* The hexadecimal string of ObjectId n.
ToHex(n) == [i \in 1..HexLen |-> IF i = HexLen THEN HexChars[n + 1] ELSE "0"]

----------------------------------------------------------------------------
(* The request body and String.prototype.trim *)

WhiteSpace == {" ", "\t"}

RECURSIVE trimStart(_)
trimStart(t) ==
    IF t # <<>> /\ t[1] \in WhiteSpace THEN trimStart(Tail(t)) ELSE t

RECURSIVE trimEnd(_)
trimEnd(t) ==
    IF t # <<>> /\ t[Len(t)] \in WhiteSpace THEN trimEnd(SubSeq(t, 1, Len(t) - 1)) ELSE t

trim(t) == trimEnd(trimStart(t))

Has(o, f) == f \in DOMAIN o

\* A request that is rejected before any driver call.
Reject(r, name, sum) ==
    /\ CanCall(r)
    /\ Return(r, sum)
    /\ Called(r, name)
    /\ UNCHANGED <<store, now, nextId>>

----------------------------------------------------------------------------
(* POST /api/todos: the createTodo controller *)

\* !title || title.trim() === ''
TitleMissing(body) == ~Has(body, "title") \/ body.title = <<>> \/ trim(body.title) = <<>>

createTodoRequest(r, body) ==
    IF TitleMissing(body)
    THEN Reject(r, "createTodo", [NoOp EXCEPT !.op = "create", !.err = "validation"])
    ELSE createTodoCall(r, trim(body.title), Has(body, "completed") /\ body.completed)

----------------------------------------------------------------------------
(* getTodoById(id) *)

getTodoByIdCall(r, s) ==
    IF ~IsHex(s)
    THEN Reject(r, "getTodoById", [NoOp EXCEPT !.op = "get", !.err = "invalid-id",
                                              !.thrown = "BSONError"])
    ELSE /\ CanCall(r)
         /\ reqs' = [reqs EXCEPT ![r] =
                       [Idle EXCEPT !.op = "get", !.pc = "findOne",
                                    !.ids = <<HexValue(s)>>]]
         /\ Called(r, "getTodoById")
         /\ UNCHANGED <<store, now, nextId, done>>

\* collection.findOne({ _id }): the document, or null
findOne(st, id) == IF id \in DOMAIN st THEN <<st[id]>> ELSE <<>>

\* toggleTodoComplete writes the value it read.
toggleUpdatesSame(todo) == [completed |-> todo.completed]

\* toggleTodoComplete marks the todo completed.
toggleUpdatesTrue(todo) == [completed |-> TRUE]

\* { completed: !todo.completed }
toggleUpdates(todo) == [completed |-> ~todo.completed]

\* findOne answers: getTodoById returns it; toggleTodoComplete returns null
\* or goes on to updateTodo, which reads the clock for updatedAt.
getTodoByIdFind(r) ==
    /\ reqs[r].pc = "findOne"
    /\ LET todo == findOne(store, reqs[r].ids[1])
       IN  IF reqs[r].op = "toggle" /\ todo # <<>>
           THEN /\ reqs' = [reqs EXCEPT ![r].pc = "findOneAndUpdate", ![r].todos = todo,
                                        ![r].updates = toggleUpdates(todo[1]),
                                        ![r].t0 = now]
                /\ done' = done
           ELSE Return(r, [NoOp EXCEPT !.op = reqs[r].op, !.ids = reqs[r].ids,
                                       !.ret = todo, !.ok = (todo # <<>>),
                                       !.read = todo])
    /\ Stepped(r, "findOne")
    /\ UNCHANGED <<store, now, nextId>>

----------------------------------------------------------------------------
(* updateTodo(id, updates), and its controller *)

\* The fields not named in the update are reset to their defaults.
setFieldsReplace(d, updates, at) ==
    LET t == IF Has(updates, "title") THEN updates.title ELSE <<>>
        c == IF Has(updates, "completed") THEN updates.completed ELSE FALSE
    IN  IF HasOrder(d)
        THEN [title |-> t, completed |-> c, order |-> d.order,
              createdAt |-> d.createdAt, updatedAt |-> at]
        ELSE [title |-> t, completed |-> c, createdAt |-> d.createdAt, updatedAt |-> at]

\* createdAt is set along with updatedAt.
setFieldsStampsBoth(d, updates, at) ==
    LET t == IF Has(updates, "title") THEN updates.title ELSE d.title
        c == IF Has(updates, "completed") THEN updates.completed ELSE d.completed
    IN  IF HasOrder(d)
        THEN [title |-> t, completed |-> c, order |-> d.order,
              createdAt |-> at, updatedAt |-> at]
        ELSE [title |-> t, completed |-> c, createdAt |-> at, updatedAt |-> at]

\* { $set: { ...updates, updatedAt } }: every field of updates is written,
\* updatedAt after them, and the other fields of the document stay.
setFields(d, updates, at) ==
    [f \in DOMAIN d \cup DOMAIN updates \cup {"updatedAt"} |->
        IF f = "updatedAt" THEN at
        ELSE IF f \in DOMAIN updates THEN updates[f]
        ELSE d[f]]

\* findOneAndUpdate with upsert: true: an absent id is inserted with the
\* $set fields.
findOneAndUpdateUpsert(st, id, updates, at) ==
    [i \in DOMAIN st \cup {id} |->
        IF i = id
        THEN setFields(IF id \in DOMAIN st THEN st[id] ELSE NoFields, updates, at)
        ELSE st[i]]

\* findOneAndUpdate({ _id }, { $set }, { returnDocument: 'after' })
findOneAndUpdate(st, id, updates, at) ==
    IF id \in DOMAIN st THEN [st EXCEPT ![id] = setFields(@, updates, at)] ELSE st

\* The body itself is handed to updateTodo.
UpdatesWholeBody(body) == body

\* The update object the controller builds from the body: of the fields of
\* the body only title (trimmed) and completed are taken.
Updates(body) ==
    IF Has(body, "title")
    THEN IF Has(body, "completed")
         THEN [title |-> trim(body.title), completed |-> body.completed]
         ELSE [title |-> trim(body.title)]
    ELSE IF Has(body, "completed") THEN [completed |-> body.completed] ELSE NoFields

\* The test of the number of keys is left out.
NothingToUpdateNever(updates) == FALSE

\* Object.keys(updates).length === 0
NothingToUpdate(updates) == DOMAIN updates = {}

updateTodoCall(r, s, body) ==
    IF NothingToUpdate(Updates(body))
    THEN Reject(r, "updateTodo", [NoOp EXCEPT !.op = "update", !.err = "validation"])
    ELSE IF ~IsHex(s)
    THEN Reject(r, "updateTodo", [NoOp EXCEPT !.op = "update", !.err = "invalid-id",
                                              !.thrown = "BSONError",
                                              !.updates = Updates(body)])
    ELSE /\ CanCall(r)
         /\ reqs' = [reqs EXCEPT ![r] =
                       [Idle EXCEPT !.op = "update", !.pc = "findOneAndUpdate",
                                    !.ids = <<HexValue(s)>>, !.updates = Updates(body),
                                    !.t0 = now]]
         /\ Called(r, "updateTodo")
         /\ UNCHANGED <<store, now, nextId, done>>

\* A toggleTodoComplete whose update matches nothing returns the document it
\* read.
updateTodoWriteReturnsRead(r) ==
    /\ reqs[r].pc = "findOneAndUpdate"
    /\ store' = findOneAndUpdate(store, reqs[r].ids[1], reqs[r].updates, reqs[r].t0)
    /\ Return(r, [NoOp EXCEPT !.op = reqs[r].op, !.ids = reqs[r].ids,
                              !.ret = IF reqs[r].ids[1] \in DOMAIN store
                                      THEN findOne(store', reqs[r].ids[1])
                                      ELSE reqs[r].todos,
                              !.ok = (reqs[r].ids[1] \in DOMAIN store \/ reqs[r].todos # <<>>),
                              !.updates = reqs[r].updates, !.read = reqs[r].todos])
    /\ Stepped(r, "findOneAndUpdate")
    /\ UNCHANGED <<now, nextId>>

\* findOneAndUpdate takes effect, for updateTodo and toggleTodoComplete, and
\* the document as it is after the update (or null) is returned.
updateTodoWrite(r) ==
    /\ reqs[r].pc = "findOneAndUpdate"
    /\ store' = findOneAndUpdate(store, reqs[r].ids[1], reqs[r].updates, reqs[r].t0)
    /\ Return(r, [NoOp EXCEPT !.op = reqs[r].op, !.ids = reqs[r].ids,
                              !.ret = findOne(store', reqs[r].ids[1]),
                              !.ok = (reqs[r].ids[1] \in DOMAIN store),
                              !.updates = reqs[r].updates, !.read = reqs[r].todos])
    /\ Stepped(r, "findOneAndUpdate")
    /\ UNCHANGED <<now, nextId>>

----------------------------------------------------------------------------
(* toggleTodoComplete(id) *)

toggleTodoCompleteCall(r, s) ==
    IF ~IsHex(s)
    THEN Reject(r, "toggleTodoComplete", [NoOp EXCEPT !.op = "toggle", !.err = "invalid-id",
                                              !.thrown = "BSONError"])
    ELSE /\ CanCall(r)
         /\ reqs' = [reqs EXCEPT ![r] =
                       [Idle EXCEPT !.op = "toggle", !.pc = "findOne",
                                    !.ids = <<HexValue(s)>>]]
         /\ Called(r, "toggleTodoComplete")
         /\ UNCHANGED <<store, now, nextId, done>>

----------------------------------------------------------------------------
(* DELETE /api/todos/:id *)

deleteTodoRequest(r, s) ==
    IF ~IsHex(s)
    THEN Reject(r, "deleteTodo", [NoOp EXCEPT !.op = "delete", !.err = "invalid-id",
                                              !.thrown = "BSONError"])
    ELSE deleteTodoCall(r, HexValue(s))

----------------------------------------------------------------------------
(* PUT /api/todos/reorder: the reorderTodos controller *)

\* The value of todoIds in the body: an array of strings, or a value that
\* is no array (undefined when the body has no such field).
Undefined == [array |-> FALSE, items |-> <<>>]
TodoIds(body) == IF Has(body, "todoIds") THEN body.todoIds ELSE Undefined

\* Only a missing todoIds is refused: the tests of the array are left out.
NotAListUndefined(body) == ~Has(body, "todoIds")

\* !Array.isArray(todoIds) || todoIds.length === 0
NotAList(body) == ~TodoIds(body).array \/ Len(TodoIds(body).items) = 0

\* todoDb.reorderTodos throws before its bulkWrite is served: todoIds.map is
\* no function, createFromHexString refuses one of the ids, or the batch
\* handed to bulkWrite is empty.
reorderTodosThrows(v) ==
    \/ ~v.array
    \/ Len(v.items) = 0
    \/ \E i \in 1..Len(v.items) : ~IsHex(v.items[i])

\* The controller answers 400 for a body without a non-empty array, and 500
\* for every error todoDb.reorderTodos throws (its catch has one branch).
\* The ids todoIds.map has converted when it stops: all of them, or those
\* before the first one createFromHexString throws on.
Converted(v) ==
    LET n == CHOOSE k \in 0..Len(v.items) :
                 /\ \A i \in 1..k : IsHex(v.items[i])
                 /\ k = Len(v.items) \/ ~IsHex(v.items[k + 1])
    IN  [i \in 1..n |-> HexValue(v.items[i])]

\* The error reorderTodos rethrows: a value without map, an id that is not an
\* ObjectId, or the empty batch bulkWrite refuses.
reorderTodosError(v) ==
    IF ~v.array THEN "TypeError"
    ELSE IF Len(Converted(v)) < Len(v.items) THEN "BSONError"
    ELSE IF Len(v.items) = 0 THEN "MongoInvalidArgumentError"
    ELSE ""

\* The first update is written before the other ids are converted.
reorderTodosRequestWritesFirst(r, body) ==
    IF NotAList(body)
    THEN Reject(r, "reorderTodos", [NoOp EXCEPT !.op = "reorder", !.err = "validation"])
    ELSE IF reorderTodosThrows(TodoIds(body))
    THEN /\ CanCall(r)
         /\ store' = IF Converted(TodoIds(body)) # <<>>
                     THEN updateOne(store, [id |-> Converted(TodoIds(body))[1], order |-> 0,
                                            touch |-> TRUE, at |-> now])
                     ELSE store
         /\ Return(r, [NoOp EXCEPT !.op = "reorder", !.err = "internal",
                                   !.ids = Converted(TodoIds(body)),
                                   !.thrown = reorderTodosError(TodoIds(body))])
         /\ Called(r, "reorderTodos")
         /\ UNCHANGED <<now, nextId>>
    ELSE reorderTodosCall(r, [i \in 1..Len(TodoIds(body).items) |->
                                 HexValue(TodoIds(body).items[i])])

reorderTodosRequest(r, body) ==
    IF NotAList(body)
    THEN Reject(r, "reorderTodos", [NoOp EXCEPT !.op = "reorder", !.err = "validation"])
    ELSE IF reorderTodosThrows(TodoIds(body))
    THEN Reject(r, "reorderTodos", [NoOp EXCEPT !.op = "reorder", !.err = "internal",
                                                !.ids = Converted(TodoIds(body)),
                                                !.thrown = reorderTodosError(TodoIds(body))])
    ELSE reorderTodosCall(r, [i \in 1..Len(TodoIds(body).items) |->
                                 HexValue(TodoIds(body).items[i])])

----------------------------------------------------------------------------
(* A driver call that fails *)

\* The orders as they were before the shift are written back.
FaultUndoes(r) ==
    /\ reqs[r].pc # "idle"
    /\ store' = IF reqs[r].pc = "insertOne"
                THEN [i \in DOMAIN store |-> SetOrder(store[i], store[i].order - 1)]
                ELSE store
    /\ Return(r, [NoOp EXCEPT !.op = reqs[r].op, !.ids = reqs[r].ids, !.err = "internal",
                                 !.thrown = "MongoError"])
    /\ Stepped(r, "fault")
    /\ UNCHANGED <<now, nextId>>

\* The driver call request r awaits rejects (the connection is lost, the
\* server refuses the write): the db function logs and rethrows, and the
\* controller's catch answers 500.  What the request wrote before stays.
Fault(r) ==
    /\ reqs[r].pc # "idle"
    /\ Return(r, [NoOp EXCEPT !.op = reqs[r].op, !.ids = reqs[r].ids, !.err = "internal",
                                 !.thrown = "MongoError"])
    /\ Stepped(r, "fault")
    /\ UNCHANGED <<store, now, nextId>>

----------------------------------------------------------------------------
(* server.js: startServer and gracefulShutdown *)

NotStarted == [pc |-> "init", closing |-> FALSE, code |-> 0]

\* process.exit(code): the handlers in flight end with the process.
exit(code) == [pc |-> "exited", closing |-> server.closing, code |-> code]

\* startServer, up to `await connectToDatabase()`.
startServer ==
    /\ server.pc = "init"
    /\ connectToDatabase(1, [server EXCEPT !.pc = "connecting"])

\* connectToDatabase goes on to its ping; startServer still awaits it.
startServerConnected ==
    /\ server.pc = "connecting"
    /\ connectResolves(1, server)

\* app.listen is not held back until the ping has answered: the server
\* listens once the client has connected.
startServerListenEarly ==
    /\ server.pc = "connecting"
    /\ connectResolves(1, [server EXCEPT !.pc = "listening"])

\* connectToDatabase returns: app.listen(PORT).
startServerListen ==
    /\ server.pc = "connecting"
    /\ pingResolves(1, [server EXCEPT !.pc = "listening"])

\* connectToDatabase throws: the catch calls process.exit(1).
startServerExit ==
    /\ server.pc = "connecting"
    /\ connectRejects(1, exit(1))

\* SIGTERM or SIGINT: gracefulShutdown, up to `await client.close()` in
\* closeDatabaseConnection, or to process.exit(0) when client is null.
gracefulShutdown ==
    /\ Alive /\ ~server.closing
    /\ IF client # 0
       THEN server' = [server EXCEPT !.closing = TRUE] /\ reqs' = reqs
       ELSE server' = exit(0) /\ reqs' = [r \in Slots |-> Idle]
    /\ UNCHANGED <<store, now, nextId, done, log, client, db, clients, conn, app, calls>>

\* client.close() resolves: client = null, db = null, process.exit(0).
closeResolves ==
    /\ Alive /\ server.closing
    /\ client' = 0 /\ db' = 0
    /\ server' = exit(0)
    /\ reqs' = [r \in Slots |-> Idle]
    /\ UNCHANGED <<store, now, nextId, done, log, clients, conn, app, calls>>

\* client.close() rejects: process.exit(1).
closeRejects ==
    /\ Alive /\ server.closing
    /\ server' = exit(1)
    /\ reqs' = [r \in Slots |-> Idle]
    /\ UNCHANGED <<store, now, nextId, done, log, client, db, clients, conn, app, calls>>

\* The process once startServer has connected and listens.
Started ==
    /\ client = 1 /\ db = 1 /\ clients = 1
    /\ conn = [c \in Callers |->
                  IF c = 1 THEN [pc |-> "done", ret |-> <<1, 1>>] ELSE NotCalled]
    /\ server = [NotStarted EXCEPT !.pc = "listening"]

----------------------------------------------------------------------------
(* The client: App.tsx, TodoList.tsx and lib/api.ts.  A Todo of the client  *)
(* is the document the server sent, of which the handlers read the id and   *)
(* completed.  A handler runs up to its await in one step and closes over   *)
(* the todos of the render it was created in; the server handles the        *)
(* request in one step (the steps of its handler run without another        *)
(* request between them); the code after the await is a third step.         *)

Todo(id, d) == [id |-> id, completed |-> d.completed]

\* useState([]), useState(true), useState(null)
Mounted == [todos |-> <<>>, isLoading |-> TRUE, error |-> ""]

NoCall ==
    [pc |-> "idle", op |-> "none", id |-> 0, todos |-> <<>>, sent |-> <<>>,
     ok |-> FALSE, data |-> <<>>]

Unmounted ==
    /\ app = Mounted
    /\ calls = [c \in Pending |-> NoCall]

AllSettled == \A c \in Pending : calls[c].pc = "idle"

TodoIdsOf(todos) == {todos[i].id : i \in 1..Len(todos)}

\* A handler is called: it takes the lowest free place.
Awaits(c, call) ==
    /\ calls[c].pc = "idle"
    /\ \A q \in Pending : q < c => calls[q].pc # "idle"
    /\ calls' = [calls EXCEPT ![c] = call]
    /\ UNCHANGED <<store, now, nextId, reqs, done, log>>
    /\ UNCHANGED process

\* useEffect(() => { loadTodos() }, []): once, when App is mounted.
loadTodos(c) ==
    /\ app.isLoading /\ app.error = "" /\ AllSettled
    /\ Awaits(c, [NoCall EXCEPT !.pc = "fetch", !.op = "load"])
    /\ app' = [app EXCEPT !.isLoading = TRUE, !.error = ""]

handleAddTodo(c) ==
    /\ Awaits(c, [NoCall EXCEPT !.pc = "fetch", !.op = "add", !.todos = app.todos])
    /\ app' = app

\* TodoList and its items are rendered when the list is loaded.
handleToggleTodo(c, id) ==
    /\ ~app.isLoading /\ id \in TodoIdsOf(app.todos)
    /\ Awaits(c, [NoCall EXCEPT !.pc = "fetch", !.op = "toggle", !.id = id,
                                !.todos = app.todos])
    /\ app' = app

handleDeleteTodo(c, id) ==
    /\ ~app.isLoading /\ id \in TodoIdsOf(app.todos)
    /\ Awaits(c, [NoCall EXCEPT !.pc = "fetch", !.op = "delete", !.id = id,
                                !.todos = app.todos])
    /\ app' = app

\* previousTodos is read after setTodos(reorderedTodos).
handleReorderSavesNew(c, reorderedTodos) ==
    /\ Awaits(c, [NoCall EXCEPT !.pc = "fetch", !.op = "reorder",
                                !.todos = reorderedTodos, !.sent = reorderedTodos])
    /\ app' = [app EXCEPT !.todos = reorderedTodos]

\* previousTodos = todos; setTodos(reorderedTodos); then the request.
handleReorder(c, reorderedTodos) ==
    /\ Awaits(c, [NoCall EXCEPT !.pc = "fetch", !.op = "reorder",
                                !.todos = app.todos, !.sent = reorderedTodos])
    /\ app' = [app EXCEPT !.todos = reorderedTodos]

\* arrayMove(array, from, to) of @dnd-kit/sortable: the element at from is
\* taken out and put in at to.
arrayMove(array, from, to) ==
    LET rest == [i \in 1..(Len(array) - 1) |->
                    IF i < from THEN array[i] ELSE array[i + 1]]
    IN  [i \in 1..Len(array) |->
            IF i < to THEN rest[i] ELSE IF i = to THEN array[from] ELSE rest[i - 1]]

\* handleDragEnd of TodoList: the item at oldIndex is dropped on the one at
\* newIndex.
handleDragEnd(c, oldIndex, newIndex) ==
    /\ ~app.isLoading
    /\ oldIndex \in 1..Len(app.todos) /\ newIndex \in 1..Len(app.todos)
    /\ oldIndex # newIndex
    /\ handleReorder(c, arrayMove(app.todos, oldIndex, newIndex))

RECURSIVE bulkWriteAll(_, _)
\* An ordered bulkWrite from its first to its last operation.
bulkWriteAll(st, ops) ==
    IF ops = <<>> THEN st ELSE bulkWriteAll(updateOne(st, Head(ops)), Tail(ops))

Answered(c, ok, data) ==
    /\ calls' = [calls EXCEPT ![c].pc = "answered", ![c].ok = ok, ![c].data = data]
    /\ UNCHANGED <<app, now, reqs, done, log>>
    /\ UNCHANGED process

\* The server handles the request of call c and answers it.
Served(c) ==
    /\ calls[c].pc = "fetch" /\ server.pc = "listening"
    /\ CASE calls[c].op = "load" ->
              \E s \in SortedViews(store) :
                 LET raw == Fetched(store, s)
                     todos == forEach(raw)
                     ops == IF needsUpdate(raw) THEN listBulkOps(todos) ELSE <<>>
                 IN  /\ store' = bulkWriteAll(store, ops)
                     /\ nextId' = nextId
                     /\ Answered(c, TRUE, [i \in 1..Len(s) |-> Todo(s[i], store[s[i]])])
         [] calls[c].op = "add" ->
              /\ store' = insertOne(updateMany(store), nextId,
                                    NewTodo(<<"A">>, FALSE, now, now))
              /\ nextId' = nextId + 1
              /\ Answered(c, TRUE, <<Todo(nextId, store'[nextId])>>)
         [] calls[c].op = "toggle" ->
              /\ store' = IF calls[c].id \in DOMAIN store
                          THEN findOneAndUpdate(store, calls[c].id,
                                                toggleUpdates(store[calls[c].id]), now)
                          ELSE store
              /\ nextId' = nextId
              /\ IF calls[c].id \in DOMAIN store
                 THEN Answered(c, TRUE, <<Todo(calls[c].id, store'[calls[c].id])>>)
                 ELSE Answered(c, FALSE, <<>>)
         [] calls[c].op = "delete" ->
              /\ store' = deleteOne(store, calls[c].id)
              /\ nextId' = nextId
              /\ Answered(c, calls[c].id \in DOMAIN store, <<>>)
         [] calls[c].op = "reorder" ->
              /\ store' = bulkWriteAll(store,
                             reorderBulkOps([i \in 1..Len(calls[c].sent) |->
                                                calls[c].sent[i].id], now))
              /\ nextId' = nextId
              /\ Answered(c, TRUE, <<>>)

\* The request of call c fails before the server writes anything: fetch
\* rejects or the answer is not ok.
Failed(c) ==
    /\ calls[c].pc = "fetch"
    /\ Answered(c, FALSE, <<>>)
    /\ UNCHANGED <<store, nextId>>

\* What the code after the await, or the catch block, makes of App's state.
Continued(q) ==
    CASE q.op = "load" ->
           IF q.ok THEN [app EXCEPT !.todos = q.data, !.isLoading = FALSE]
           ELSE [app EXCEPT !.isLoading = FALSE,
                            !.error = "Failed to load todos. Make sure the server is running."]
      [] q.op = "add" ->
           IF q.ok THEN [app EXCEPT !.todos = q.data \o q.todos]
           ELSE [app EXCEPT !.error = "Failed to create todo"]
      [] q.op = "toggle" ->
           IF q.ok
           THEN [app EXCEPT !.todos = [i \in 1..Len(q.todos) |->
                                          IF q.todos[i].id = q.id THEN q.data[1]
                                          ELSE q.todos[i]]]
           ELSE [app EXCEPT !.error = "Failed to update todo"]
      [] q.op = "delete" ->
           IF q.ok
           THEN [app EXCEPT !.todos = LET Other(t) == t.id # q.id
                                      IN  SelectSeq(q.todos, Other)]
           ELSE [app EXCEPT !.error = "Failed to delete todo"]
      [] q.op = "reorder" ->
           IF q.ok THEN app
           ELSE [app EXCEPT !.error = "Failed to save order", !.todos = q.todos]

\* The awaited api call of call c settles and the handler runs to its end.
Resolved(c) ==
    /\ calls[c].pc = "answered"
    /\ app' = Continued(calls[c])
    /\ calls' = [calls EXCEPT ![c] = NoCall]
    /\ UNCHANGED <<store, now, nextId, reqs, done, log>>
    /\ UNCHANGED process

----------------------------------------------------------------------------
(* The clock *)

Tick ==
    /\ now < MaxClock
    /\ now' = now + 1
    /\ UNCHANGED <<store, nextId, reqs, done, log>>
    /\ UNCHANGED process
    /\ UNCHANGED ui

----------------------------------------------------------------------------
(* Specifications *)

\* The collection the server finds: empty, or holding up to n documents
\* written before the ordering feature (none of them with an "order").
InitFrom(legacy, n) ==
    /\ \E k \in 0..n : k <= MaxIds /\ store \in [1..k -> legacy] /\ nextId = k + 1
    /\ now = 0
    /\ reqs = [r \in Slots |-> Idle]
    /\ done = <<NoOp, NoOp>>
    /\ log = <<>>
    /\ Started
    /\ Unmounted

LegacyDocs == {LegacyDoc(<<"A">>, FALSE, 0)}

\* The same collection, found at any time of the clock (which then stands
\* still: every new Date() of the run reads the same time).
InitAt(legacy, n) ==
    /\ \E k \in 0..n : k <= MaxIds /\ store \in [1..k -> legacy] /\ nextId = k + 1
    /\ now \in 0..MaxClock
    /\ reqs = [r \in Slots |-> Idle]
    /\ done = <<NoOp, NoOp>>
    /\ log = <<>>
    /\ Started
    /\ Unmounted

\* The id lists the client sends: some of the ids 1..max, each once, in any
\* order.
ReorderArgs(max) ==
    UNION {{s \in [1..n -> 1..max] : \A i, j \in 1..n : s[i] = s[j] => i = j} : n \in 1..max}

Step(r) ==
    \/ createTodoShift(r)
    \/ createTodoInsert(r)
    \/ getAllTodosFind(r)
    \/ bulkWrite(r)
    \/ deleteTodoDelete(r)

\* The requests of the ordering subsystem, over the ids 1..max.
Call(r, max) ==
    \/ IdsLeft(max) /\ createTodoCall(r, <<"A">>, FALSE)
    \/ getAllTodosCall(r)
    \/ \E ids \in ReorderArgs(max) : reorderTodosCall(r, ids)
    \/ \E id \in 1..max : deleteTodoCall(r, id)

\* One request at a time: a request arrives only when none is in flight.
NextSeq ==
    \/ Quiescent /\ IdsLeft(MaxDocs) /\ \E r \in Slots : createTodoCall(r, <<"A">>, FALSE)
    \/ Quiescent /\ \E r \in Slots : getAllTodosCall(r)
    \/ Quiescent /\ \E r \in Slots : \E ids \in ReorderArgs(MaxDocs) : reorderTodosCall(r, ids)
    \/ Quiescent /\ \E r \in Slots : \E id \in 1..MaxDocs : deleteTodoCall(r, id)
    \/ \E r \in Slots : Step(r)
    \/ Tick

SpecSeq == InitFrom(LegacyDocs, MaxDocs) /\ [][NextSeq]_vars

\* The same, over the wider collection.
Init == InitFrom(LegacyDocs, MaxLegacy)

NextSeqWide ==
    \/ Quiescent /\ IdsLeft(MaxIds) /\ \E r \in Slots : createTodoCall(r, <<"A">>, FALSE)
    \/ Quiescent /\ \E r \in Slots : getAllTodosCall(r)
    \/ Quiescent /\ \E r \in Slots : \E ids \in ReorderArgs(MaxIds) : reorderTodosCall(r, ids)
    \/ Quiescent /\ \E r \in Slots : \E id \in Ids : deleteTodoCall(r, id)
    \/ \E r \in Slots : Step(r)
    \/ Tick

SpecSeqWide == Init /\ [][NextSeqWide]_vars

\* Requests arrive at any time and their steps interleave.
Next ==
    \/ \E r \in Slots : Call(r, MaxDocs)
    \/ \E r \in Slots : Step(r)
    \/ Tick

Spec == InitFrom(LegacyDocs, MaxDocs) /\ [][Next]_vars

\* Only createTodo and getAllTodos, one at a time, on an empty collection.
InitEmpty == InitFrom({}, 0)

NextCreate ==
    \/ /\ Quiescent /\ IdsLeft(MaxIds)
       /\ \E r \in Slots : \E t \in Titles, c \in BOOLEAN : createTodoCall(r, t, c)
    \/ Quiescent /\ \E r \in Slots : getAllTodosCall(r)
    \/ \E r \in Slots : createTodoShift(r) \/ createTodoInsert(r) \/ getAllTodosFind(r)
    \/ Tick

SpecCreate == InitEmpty /\ [][NextCreate]_vars

\* createTodo requests whose steps interleave, on an empty collection.
NextRace ==
    \/ IdsLeft(MaxIds) /\ \E r \in Slots : createTodoCall(r, <<"A">>, FALSE)
    \/ \E r \in Slots : createTodoShift(r)
    \/ \E r \in Slots : createTodoInsert(r)
    \/ Tick

SpecRace == InitEmpty /\ [][NextRace]_vars

\* reorderTodos and deleteTodo requests whose steps interleave.
NextReorderRace ==
    \/ \E r \in Slots : \E ids \in ReorderArgs(MaxDocs) : reorderTodosCall(r, ids)
    \/ \E r \in Slots : \E id \in 1..MaxDocs : deleteTodoCall(r, id)
    \/ \E r \in Slots : bulkWrite(r)
    \/ \E r \in Slots : deleteTodoDelete(r)
    \/ Tick

SpecReorderRace == InitFrom(LegacyDocs, MaxDocs) /\ [][NextReorderRace]_vars

\* The requests of the first burst: no request has arrived yet, or the
\* requests that have are still in flight.
FirstBurst == log = <<>> \/ ~Quiescent

\* One burst of one reorderTodos with deleteTodo requests in flight with it.
NextDeleteRace ==
    \/ /\ FirstBurst
       /\ \A q \in Slots : reqs[q].op # "reorder"
       /\ \E r \in Slots : \E ids \in ReorderArgs(MaxDocs) : reorderTodosCall(r, ids)
    \/ FirstBurst /\ \E r \in Slots : \E id \in 1..MaxDocs : deleteTodoCall(r, id)
    \/ \E r \in Slots : bulkWrite(r)
    \/ \E r \in Slots : deleteTodoDelete(r)

SpecDeleteRace == InitAt(LegacyDocs, MaxDocs) /\ [][NextDeleteRace]_vars

----------------------------------------------------------------------------
(* The requests on single documents *)


\* Strings that are no ObjectId: too short, and with a character that is no
\* hexadecimal digit.
Malformed == {<<"1">>, [ToHex(1) EXCEPT ![1] = "g"]}

\* The :id parameters the client sends: the ids 1..MaxDocs and the
\* malformed strings.
IdStrings == {ToHex(n) : n \in 1..MaxDocs} \cup Malformed

RawTitles == {<<>>, <<" ", "\t">>, <<" ", "B">>, <<"B">>}

\* The request bodies: title and completed are each present or not.
Bodies ==
    {NoFields}
        \cup {[title |-> t] : t \in RawTitles}
        \cup {[completed |-> c] : c \in BOOLEAN}
        \cup {[title |-> t, completed |-> c] : t \in RawTitles, c \in BOOLEAN}

ItemStep(r) ==
    \/ getTodoByIdFind(r)
    \/ updateTodoWrite(r)
    \/ deleteTodoDelete(r)

\* Bodies of PATCH /api/todos/:id: without fields, and with a completed flag.
ItemBodies == {NoFields, [completed |-> TRUE]}

\* The requests on single documents, one at a time.
NextItem ==
    \/ Quiescent /\ \E r \in Slots : \E s \in IdStrings : getTodoByIdCall(r, s)
    \/ /\ Quiescent
       /\ \E r \in Slots : \E s \in IdStrings : \E body \in ItemBodies :
             updateTodoCall(r, s, body)
    \/ Quiescent /\ \E r \in Slots : \E s \in IdStrings : toggleTodoCompleteCall(r, s)
    \/ Quiescent /\ \E r \in Slots : \E s \in IdStrings : deleteTodoRequest(r, s)
    \/ \E r \in Slots : ItemStep(r)

SpecItem == InitAt(LegacyDocs, MaxDocs) /\ [][NextItem]_vars

\* POST /api/todos, and PATCH /api/todos/:id for the documents in the
\* collection, with every body, one at a time, on an empty collection.
NextHttp ==
    \/ /\ Quiescent /\ IdsLeft(MaxDocs)
       /\ \E r \in Slots : \E body \in Bodies : createTodoRequest(r, body)
    \/ /\ Quiescent
       /\ \E r \in Slots : \E id \in DOMAIN store : \E body \in Bodies :
             updateTodoCall(r, ToHex(id), body)
    \/ \E r \in Slots : createTodoShift(r) \/ createTodoInsert(r)
    \/ \E r \in Slots : updateTodoWrite(r)
    \/ Tick

SpecHttp == InitEmpty /\ [][NextHttp]_vars

\* deleteTodo, getTodoById and getAllTodos, one at a time.
NextDelete ==
    \/ Quiescent /\ \E r \in Slots : \E s \in IdStrings : deleteTodoRequest(r, s)
    \/ Quiescent /\ \E r \in Slots : \E s \in IdStrings : getTodoByIdCall(r, s)
    \/ Quiescent /\ \E r \in Slots : getAllTodosCall(r)
    \/ \E r \in Slots : deleteTodoDelete(r) \/ getTodoByIdFind(r)
    \/ \E r \in Slots : getAllTodosFind(r) \/ bulkWrite(r)
    \/ Tick

SpecDelete == InitFrom(LegacyDocs, MaxDocs) /\ [][NextDelete]_vars

\* Bodies of the updates in flight together: a title, or a completed flag.
RaceBodies == {[title |-> <<"B">>]} \cup {[completed |-> c] : c \in BOOLEAN}

\* The requests in flight are all for document id.
OnlyFor(id) == \A q \in Slots : reqs[q].pc # "idle" => reqs[q].ids = <<id>>

\* One burst of toggleTodoComplete and updateTodo requests for the same
\* document, whose steps interleave.
NextItemRace ==
    \/ /\ FirstBurst
       /\ \E r \in Slots : \E id \in 1..MaxDocs :
             OnlyFor(id) /\ toggleTodoCompleteCall(r, ToHex(id))
    \/ /\ FirstBurst
       /\ \E r \in Slots : \E id \in 1..MaxDocs : \E body \in RaceBodies :
             OnlyFor(id) /\ updateTodoCall(r, ToHex(id), body)
    \/ \E r \in Slots : getTodoByIdFind(r)
    \/ \E r \in Slots : updateTodoWrite(r)

SpecItemRace == InitAt(LegacyDocs, MaxDocs) /\ [][NextItemRace]_vars

\* The lists of :id strings of length 1..n, each string once.
IdLists(n) ==
    UNION {{s \in [1..k -> IdStrings] : \A i, j \in 1..k : s[i] = s[j] => i = j} :
              k \in 1..n}

\* Bodies of PUT /api/todos/reorder: without todoIds, with a todoIds that is
\* no array, with an empty array, and with an array of id strings.
ReorderBodies ==
    {NoFields, [todoIds |-> Undefined], [todoIds |-> [array |-> TRUE, items |-> <<>>]]}
        \cup {[todoIds |-> [array |-> TRUE, items |-> s]] : s \in IdLists(MaxDocs)}

\* PUT /api/todos/reorder with every body, one request at a time.
NextReorderHttp ==
    \/ Quiescent /\ \E r \in Slots : \E body \in ReorderBodies : reorderTodosRequest(r, body)
    \/ \E r \in Slots : bulkWrite(r)

SpecReorderHttp == InitFrom(LegacyDocs, MaxDocs) /\ [][NextReorderHttp]_vars

\* No order has reached MaxShift.
CanShift == \A i \in DOMAIN store : HasOrder(store[i]) => store[i].order < MaxShift

\* createTodo calls, one at a time, whose driver calls can fail, on an empty
\* collection.
NextCreateFault ==
    \/ /\ Quiescent /\ IdsLeft(MaxIds) /\ CanShift
       /\ \E r \in Slots : \E t \in Titles : createTodoCall(r, t, FALSE)
    \/ \E r \in Slots : createTodoShift(r)
    \/ \E r \in Slots : createTodoInsert(r)
    \/ \E r \in Slots : Fault(r)

SpecCreateFault == InitEmpty /\ [][NextCreateFault]_vars

\* Every request on single documents and PUT /api/todos/reorder, one at a
\* time, with driver calls that can fail.
NextApi ==
    \/ NextItem
    \/ NextReorderHttp
    \/ \E r \in Slots : Fault(r)

SpecApi == InitFrom(LegacyDocs, MaxDocs) /\ [][NextApi]_vars

\* Every request that writes a document, one at a time; the clock moves
\* between two requests, so that a request reads one time throughout.
NextStamp ==
    \/ Quiescent /\ IdsLeft(MaxDocs) /\ \E r \in Slots : createTodoCall(r, <<"A">>, FALSE)
    \/ Quiescent /\ \E r \in Slots : getAllTodosCall(r)
    \/ Quiescent /\ \E r \in Slots : \E ids \in ReorderArgs(MaxDocs) : reorderTodosCall(r, ids)
    \/ /\ Quiescent
       /\ \E r \in Slots : \E id \in 1..MaxDocs : \E body \in RaceBodies :
             updateTodoCall(r, ToHex(id), body)
    \/ Quiescent /\ \E r \in Slots : \E id \in 1..MaxDocs : toggleTodoCompleteCall(r, ToHex(id))
    \/ \E r \in Slots : createTodoShift(r) \/ createTodoInsert(r)
    \/ \E r \in Slots : getAllTodosFind(r) \/ bulkWrite(r)
    \/ \E r \in Slots : getTodoByIdFind(r) \/ updateTodoWrite(r)
    \/ Quiescent /\ Tick

SpecStamp == InitEmpty /\ [][NextStamp]_vars

\* No request has arrived yet, or one has and is still in flight.
Pair == log = <<>> \/ (~Quiescent /\ Calls(log) = 1)

\* Two requests of any kind in flight together, for the documents in the
\* collection, whose steps interleave.
NextMix ==
    \/ Pair /\ IdsLeft(MaxIds) /\ \E r \in Slots : createTodoCall(r, <<"B">>, FALSE)
    \/ Pair /\ \E r \in Slots : getAllTodosCall(r)
    \/ Pair /\ \E r \in Slots : \E ids \in Perms(DOMAIN store) : reorderTodosCall(r, ids)
    \/ /\ Pair
       /\ \E r \in Slots : \E id \in DOMAIN store :
             updateTodoCall(r, ToHex(id), [title |-> <<"B">>])
    \/ Pair /\ \E r \in Slots : \E id \in DOMAIN store : toggleTodoCompleteCall(r, ToHex(id))
    \/ Pair /\ \E r \in Slots : \E id \in DOMAIN store : deleteTodoCall(r, id)
    \/ \E r \in Slots : Step(r)
    \/ \E r \in Slots : getTodoByIdFind(r) \/ updateTodoWrite(r)

SpecMix == InitAt(LegacyDocs, MaxDocs) /\ [][NextMix]_vars

\* The process as node starts it: nothing connected, an empty collection.
InitProcess ==
    /\ store = <<>> /\ nextId = 1
    /\ now = 0
    /\ reqs = [r \in Slots |-> Idle]
    /\ done = <<NoOp, NoOp>>
    /\ log = <<>>
    /\ client = 0 /\ db = 0 /\ clients = 0
    /\ conn = [c \in Callers |-> NotCalled]
    /\ server = NotStarted
    /\ Unmounted

\* The process from its start to its exit, with createTodo and getAllTodos
\* requests, one at a time, and a signal at any time.
NextServer ==
    \/ startServer
    \/ startServerConnected
    \/ startServerListen
    \/ startServerExit
    \/ gracefulShutdown
    \/ closeResolves
    \/ closeRejects
    \/ Quiescent /\ IdsLeft(MaxDocs) /\ \E r \in Slots : createTodoCall(r, <<"A">>, FALSE)
    \/ Quiescent /\ \E r \in Slots : getAllTodosCall(r)
    \/ \E r \in Slots : createTodoShift(r) \/ createTodoInsert(r) \/ getAllTodosFind(r)

SpecServer == InitProcess /\ [][NextServer]_vars

\* Calls of connectToDatabase, one per caller, whose steps interleave; no
\* closeDatabaseConnection.
NextConnect ==
    \/ \E c \in Callers : connectToDatabase(c, server)
    \/ \E c \in Callers : connectResolves(c, server)
    \/ \E c \in Callers : pingResolves(c, server)
    \/ \E c \in Callers : connectRejects(c, server)

SpecConnect == InitProcess /\ [][NextConnect]_vars

\* Bodies of PATCH /api/todos/:id with a title, with a completed flag, with
\* both, and with a field that is neither.
UpdateBodies ==
    {[title |-> <<" ", "B">>], [title |-> <<"B">>, completed |-> TRUE],
     [completed |-> TRUE, order |-> 5]}

\* updateTodo requests, one at a time, each followed by a getAllTodos (whose
\* repair gives the documents an order).
NextUpdate ==
    \/ /\ Quiescent /\ done[2].op # "update"
       /\ \E r \in Slots : \E id \in 1..MaxDocs : \E body \in UpdateBodies :
             updateTodoCall(r, ToHex(id), body)
    \/ Quiescent /\ \E r \in Slots : getAllTodosCall(r)
    \/ \E r \in Slots : updateTodoWrite(r)
    \/ \E r \in Slots : getAllTodosFind(r) \/ bulkWrite(r)

SpecUpdate == InitAt(LegacyDocs, MaxDocs) /\ [][NextUpdate]_vars

\* createTodo, and reorderTodos with a permutation of all the ids in the
\* collection, one at a time, on an empty collection.
NextRank ==
    \/ /\ Quiescent /\ IdsLeft(MaxIds)
       /\ \E r \in Slots : \E t \in Titles : createTodoCall(r, t, FALSE)
    \/ /\ Quiescent
       /\ \E r \in Slots : \E ids \in Perms(DOMAIN store) : reorderTodosCall(r, ids)
    \/ \E r \in Slots : createTodoShift(r) \/ createTodoInsert(r)
    \/ \E r \in Slots : bulkWrite(r)

SpecRank == InitEmpty /\ [][NextRank]_vars

----------------------------------------------------------------------------
(* What the last completed requests returned *)

Last == done[2]
Prior == done[1]

RetIds(sum) == [i \in 1..Len(sum.ret) |-> sum.ret[i].id]
RetOrders(sum) == [i \in 1..Len(sum.ret) |-> sum.ret[i].order]
Range(f) == {f[i] : i \in DOMAIN f}

Listed == Quiescent /\ Last.op = "list"

----------------------------------------------------------------------------
(* Properties *)

\* C1: on an empty collection, after n createTodo calls run one after another
\* getAllTodos returns n documents whose orders are exactly 0..n-1, and the
\* document created last has order 0.
C1_DenseAfterCreates ==
    Listed =>
        LET n == nextId - 1
        IN  /\ Len(Last.ret) = n
            /\ Range(RetIds(Last)) = DOMAIN store
            /\ Range(RetOrders(Last)) = 0..(n - 1)
            /\ \A i \in 1..n : store[Last.ret[i].id].order = Last.ret[i].order
            /\ \A i \in 1..n : Last.ret[i].id = n => Last.ret[i].order = 0

C1_Witness ==
    Listed /\ Len(Last.ret) = 3 /\ Range(RetOrders(Last)) = {0, 1, 2}

\* C2: on an empty collection, after createTodo calls run one after another
\* getAllTodos returns the documents in reverse creation order, the one
\* created last first.
C2_ReverseCreationOrder ==
    Listed =>
        /\ Len(Last.ret) = nextId - 1
        /\ \A i \in 1..Len(Last.ret) : Last.ret[i].id = nextId - i

C2_Witness ==
    Listed /\ RetIds(Last) = <<3, 2, 1>>

\* C3: when reorderTodos is given a permutation of all the ids in the
\* collection (whatever orders it held) and getAllTodos follows with nothing
\* in between, getAllTodos returns the documents in the sequence given and the
\* document at position i has order i.
C3_ReorderThenList ==
    (Listed /\ Prior.op = "reorder" /\ Prior.ids \in Perms(DOMAIN store)) =>
        /\ RetIds(Last) = Prior.ids
        /\ \A i \in 1..Len(Last.ret) :
              /\ Last.ret[i].order = i - 1
              /\ HasOrder(store[Last.ret[i].id])
              /\ store[Last.ret[i].id].order = i - 1

C3_Witness ==
    /\ Listed /\ Prior.op = "reorder" /\ Prior.ids \in Perms(DOMAIN store)
    /\ RetIds(Last) = <<2, 1>>
    /\ RetOrders(Last) = <<0, 1>>

\* C4: once a getAllTodos that found documents without an order has
\* completed, every document has an order and the orders are exactly 0..n-1,
\* also when other documents already had an order.
C4_RepairMakesDense ==
    (Listed /\ Last.repaired) => Dense(store)

\* C6: when getAllTodos finds documents without an order, its bulkWrite has
\* an update for exactly the documents that had none when it read them.
C6_RepairWritesOnlyMissing ==
    (Last.op = "list" /\ Last.repaired) => Last.wrote = Last.missing

\* C7: on a collection in which no document has an order, two getAllTodos
\* calls in a row return the same documents with the same orders, and the
\* second one writes nothing.
C7_RepairIdempotent ==
    (/\ Listed /\ Prior.op = "list"
     /\ Prior.missing = Range(RetIds(Prior))) =>
        /\ Last.ret = Prior.ret
        /\ Last.wrote = {}
        /\ ~Last.repaired

C7_Witness ==
    /\ Listed /\ Prior.op = "list"
    /\ Prior.missing = Range(RetIds(Prior))
    /\ Cardinality(Prior.missing) = 2
    /\ Prior.wrote = Prior.missing
    /\ Last.wrote = {}

\* C8: the sequence getAllTodos returns is sorted by order (the orders never
\* decrease along it), also when some documents had no order, and a second
\* getAllTodos right after it returns the same sequence.
C8_ListSortedAndStable ==
    /\ \A r \in Slots : reqs[r].op = "list" =>
          \A i \in 1..(Len(reqs[r].todos) - 1) :
              reqs[r].todos[i].order <= reqs[r].todos[i + 1].order
    /\ Last.op = "list" =>
          \A i \in 1..(Len(Last.ret) - 1) : Last.ret[i].order <= Last.ret[i + 1].order
    /\ (Listed /\ Prior.op = "list") => RetIds(Last) = RetIds(Prior)

----------------------------------------------------------------------------
(* The steps of a burst *)

IsStep(e) == ~e.call
StepNames == [i \in 1..Len(SelectSeq(log, IsStep)) |-> SelectSeq(log, IsStep)[i].step]
StepSlots == [i \in 1..Len(SelectSeq(log, IsStep)) |-> SelectSeq(log, IsStep)[i].slot]

\* Two createTodo calls were in flight together and both updateMany steps
\* came before both insertOne steps.
BothShiftsFirst ==
    Quiescent /\ StepNames = <<"updateMany", "updateMany", "insertOne", "insertOne">>

\* Two createTodo calls were in flight together, and the two steps of one
\* came before the two steps of the other.
OneAfterTheOther ==
    /\ Quiescent /\ Calls(log) = 2
    /\ StepNames = <<"updateMany", "insertOne", "updateMany", "insertOne">>

\* C5: two createTodo calls in flight together take four steps that
\* interleave.  When both increments come before both inserts, two documents
\* end with order 0 and none with order 1; when the two steps of one call
\* come before those of the other, a dense rank stays dense.
C5_CreateRace ==
    /\ BothShiftsFirst =>
          /\ Cardinality(WithOrder(store, 0)) = 2
          /\ WithOrder(store, 1) = {}
    /\ (OneAfterTheOther /\ log[1].dense) => Dense(store)

C5_Witness ==
    /\ BothShiftsFirst /\ log[1].dense
    /\ Cardinality(DOMAIN store) = 3
    /\ Cardinality(WithOrder(store, 0)) = 2
    /\ ~Dense(store)

\* A reorderTodos request in slot r takes a step.
ReorderSteps(r) == reqs[r].op = "reorder" /\ reqs'[r] # reqs[r]

\* C9: reorderTodos with a non-empty list of well-formed ids none of which
\* is in the collection returns true, changes no field of any document and
\* creates no document.
C9_UnmatchedReorder ==
    [][\A r \in Slots :
          (ReorderSteps(r) /\ Range(reqs[r].ids) \cap DOMAIN store = {}) =>
              /\ store' = store
              /\ reqs'[r].pc = "idle" => (Last'.op = "reorder" /\ Last'.ok)]_vars

C9_Witness ==
    /\ Quiescent /\ Last.op = "reorder" /\ Last.ok
    /\ Range(Last.ids) \cap DOMAIN store = {}
    /\ DOMAIN store # {}

\* C10: reorderTodos with a list that leaves out some of the ids in the
\* collection sets order = i only on the document at position i of the list;
\* every document it leaves out keeps its order (and every other field), so
\* two documents can end with the same order.
C10_PartialReorder ==
    /\ [](Quiescent /\ Last.op = "reorder" =>
            \A i \in 1..Len(Last.ids) :
                Last.ids[i] \in DOMAIN store => store[Last.ids[i]].order = i - 1)
    /\ [][\A r \in Slots : ReorderSteps(r) =>
            /\ DOMAIN store' = DOMAIN store
            /\ \A i \in DOMAIN store :
                  i # reqs[r].ops[reqs[r].k].id => store'[i] = store[i]]_vars

C10_Witness ==
    /\ Quiescent /\ Last.op = "reorder"
    /\ \E i \in DOMAIN store : i \notin Range(Last.ids)
    /\ \E i, j \in DOMAIN store :
          /\ i \in Range(Last.ids) /\ j \notin Range(Last.ids)
          /\ HasOrder(store[j]) /\ store[i].order = store[j].order

----------------------------------------------------------------------------
(* reorderTodos and the requests in flight with it *)

CallsOf(name) == SelectSeq(log, LAMBDA e : e.call /\ e.step = name)

\* The documents are in the sequence ids: the one at position i has order i.
Holds(st, ids) ==
    \A i \in 1..Len(ids) :
        ids[i] \in DOMAIN st /\ HasOrder(st[ids[i]]) /\ st[ids[i]].order = i - 1

\* A reorderTodos in slot r has applied some of its updates and not all.
PartlyApplied(r) ==
    /\ reqs[r].op = "reorder" /\ reqs[r].k > 1
    /\ \E i \in 1..(reqs[r].k - 1) : reqs[r].ids[i] \in DOMAIN store

\* C11: the bulkWrite of reorderTodos is atomic: no other request takes a
\* step while a reorder is partly applied, and after two reorderTodos in
\* flight together, each given a permutation of all the ids, the collection
\* is in one of the two sequences asked for.
C11_ReorderAtomic ==
    /\ [][\A r \in Slots :
            (PartlyApplied(r) /\ log' # log /\ ~log'[Len(log')].call) =>
                log'[Len(log')].slot = r]_vars
    /\ []((/\ Quiescent
           /\ Len(CallsOf("reorderTodos")) = 2
           /\ \A i \in 1..2 : CallsOf("reorderTodos")[i].ids \in Perms(DOMAIN store)) =>
              \E i \in 1..2 : Holds(store, CallsOf("reorderTodos")[i].ids))

\* One reorderTodos and no other is in the burst.
OneReorder == Len(CallsOf("reorderTodos")) = 1

\* C12: when a deleteTodo of one of the ids takes effect before or between
\* the updates of a reorderTodos, the update for the deleted id changes
\* nothing and creates no document, reorderTodos still returns true, and
\* every other document of the list that exists ends with its position as
\* its order.
C12_DeleteDuringReorder ==
    [][\A r \in Slots : (ReorderSteps(r) /\ OneReorder) =>
          /\ DOMAIN store' = DOMAIN store
          /\ reqs[r].ops[reqs[r].k].id \notin DOMAIN store => store' = store
          /\ reqs'[r].pc = "idle" =>
                /\ Last'.op = "reorder" /\ Last'.ok
                /\ \A i \in 1..Len(reqs[r].ids) :
                      reqs[r].ids[i] \in DOMAIN store' =>
                          store'[reqs[r].ids[i]].order = i - 1]_vars

C12_Witness ==
    /\ Quiescent /\ Last.op = "reorder" /\ Last.ok
    /\ StepNames = <<"updateOne", "deleteOne", "updateOne">>
    /\ Len(Last.ids) = 2
    /\ Last.ids[2] \notin DOMAIN store
    /\ Last.ids[1] \in DOMAIN store /\ store[Last.ids[1]].order = 0

----------------------------------------------------------------------------
(* The requests on single documents *)

\* The last two completed requests were toggleTodoComplete on the same
\* document, and both found it.
TwoToggles ==
    /\ Quiescent
    /\ Last.op = "toggle" /\ Prior.op = "toggle"
    /\ Last.ids = Prior.ids
    /\ Last.ok /\ Prior.ok

\* C13: two toggleTodoComplete calls on an existing document, the second
\* called after the first has returned and with no other writer, leave
\* completed as it was, and each call returns the document with completed
\* flipped from the value it had before that call.
C13_ToggleTwice ==
    /\ \A r \in Slots :
          (reqs[r].op = "toggle" /\ reqs[r].pc = "findOneAndUpdate") =>
              /\ reqs[r].ids[1] \in DOMAIN store
              /\ reqs[r].todos = <<store[reqs[r].ids[1]]>>
    /\ TwoToggles =>
          LET orig == Prior.read[1].completed
          IN  /\ Prior.ret[1].completed = ~orig
              /\ Last.read[1].completed = ~orig
              /\ Last.ret[1].completed = orig
              /\ Last.ids[1] \in DOMAIN store
              /\ store[Last.ids[1]].completed = orig

C13_Witness ==
    /\ TwoToggles
    /\ Prior.read[1].completed
    /\ ~Prior.ret[1].completed
    /\ store[Last.ids[1]].completed

\* Two toggleTodoComplete calls on one document were in flight together and
\* both reads came before both writes.
BothReadsFirst ==
    /\ Quiescent /\ Calls(log) = 2
    /\ Len(CallsOf("toggleTodoComplete")) = 2
    /\ CallsOf("toggleTodoComplete")[1].ids = CallsOf("toggleTodoComplete")[2].ids
    /\ StepNames = <<"findOne", "findOne", "findOneAndUpdate", "findOneAndUpdate">>

\* C14: when two toggleTodoComplete calls on the same document are in flight
\* together and both reads come before either write, both write the same
\* negated value: afterwards completed is flipped once from its original
\* value, and the stored document is the one written last.
C14_ToggleRace ==
    BothReadsFirst =>
        LET orig == Prior.read[1].completed
            id == Last.ids[1]
        IN  /\ Last.op = "toggle" /\ Prior.op = "toggle"
            /\ Last.read[1].completed = orig
            /\ Prior.ret[1].completed = ~orig
            /\ Last.ret[1].completed = ~orig
            /\ store[id].completed = ~orig
            /\ store[id] = Last.ret[1]

C14_Witness ==
    /\ BothReadsFirst
    /\ ~Prior.read[1].completed
    /\ store[Last.ids[1]].completed
    /\ Prior.ret[1].completed /\ Last.ret[1].completed

\* Two updateTodo calls on one document were in flight together, one with a
\* title only and one with completed only, and both found the document.
TitleAndCompleted(a, b) ==
    /\ Quiescent /\ Calls(log) = 2
    /\ Len(CallsOf("updateTodo")) = 2
    /\ a.op = "update" /\ b.op = "update"
    /\ a.ids = b.ids
    /\ a.ok /\ b.ok
    /\ DOMAIN a.updates = {"title"}
    /\ DOMAIN b.updates = {"completed"}

\* An updateTodo or toggleTodoComplete in slot r writes.
UpdateWrites(r) == reqs[r].pc = "findOneAndUpdate" /\ reqs'[r].pc = "idle"

\* C15: updateTodo is one atomic merge of the fields it is given: after an
\* update of the title and an update of completed on the same existing
\* document were in flight together, the document has the new title and the
\* new completed (neither write is lost), and each call returns the document
\* as it is right after its own write.
C15_UpdateMerge ==
    /\ [](\A a, b \in {Last, Prior} :
            TitleAndCompleted(a, b) =>
                /\ store[a.ids[1]].title = a.updates.title
                /\ store[a.ids[1]].completed = b.updates.completed)
    /\ [][\A r \in Slots :
            (UpdateWrites(r) /\ reqs[r].ids[1] \in DOMAIN store) =>
                /\ Last'.ret = <<store'[reqs[r].ids[1]]>>
                /\ store'[reqs[r].ids[1]] =
                      setFields(store[reqs[r].ids[1]], reqs[r].updates, reqs[r].t0)]_vars

C15_Witness ==
    /\ TitleAndCompleted(Prior, Last)
    /\ store[Last.ids[1]].title = <<"B">>
    /\ store[Last.ids[1]].completed = Last.updates.completed
    /\ Last.ret[1].title = <<"B">>
    /\ Prior.ret[1].completed # Last.updates.completed

\* A deleteTodo in slot r takes its step.
Deletes(r) == reqs[r].op = "delete" /\ reqs[r].pc = "deleteOne" /\ reqs'[r].pc = "idle"

\* C16: deleteTodo of an id in the collection returns true and removes that
\* document and no other: getAllTodos then returns one document fewer and
\* none with that id, getTodoById of the id returns null, and every field of
\* every other document is as before.  deleteTodo of a well-formed id that
\* is not in the collection returns false and changes nothing.
C16_DeleteOne ==
    /\ [][\A r \in Slots : Deletes(r) =>
            LET id == reqs[r].ids[1]
            IN  /\ Last'.op = "delete" /\ Last'.err = ""
                /\ id \in DOMAIN store =>
                      /\ Last'.ok
                      /\ DOMAIN store' = DOMAIN store \ {id}
                      /\ Cardinality(DOMAIN store') = Cardinality(DOMAIN store) - 1
                      /\ \A j \in DOMAIN store' : store'[j] = store[j]
                /\ id \notin DOMAIN store => (~Last'.ok /\ store' = store)]_vars
    /\ []((Listed /\ Prior.op = "delete" /\ Prior.err = "") =>
              /\ Prior.ids[1] \notin Range(RetIds(Last))
              /\ Range(RetIds(Last)) = DOMAIN store
              /\ Len(Last.ret) = Cardinality(DOMAIN store))
    /\ []((/\ Quiescent /\ Last.op = "get" /\ Prior.op = "delete"
           /\ Prior.err = "" /\ Last.ids = Prior.ids) =>
              (Last.ret = <<>> /\ ~Last.ok /\ Last.err = ""))

C16_Witness ==
    /\ Quiescent /\ Last.op = "get" /\ Prior.op = "delete"
    /\ Prior.ok /\ Last.ids = Prior.ids
    /\ Last.ret = <<>>
    /\ DOMAIN store # {}

AllOrdered(st) == \A i \in DOMAIN st : HasOrder(st[i])

\* A getAllTodos in slot r gets the answer to its find.
Finds(r) == reqs[r].op = "list" /\ reqs[r].pc = "find" /\ reqs'[r] # reqs[r]

\* C17: the gaps a deletion leaves stay: deleteTodo leaves the orders of the
\* remaining documents as they are, and getAllTodos on a collection in which
\* every document has an order, dense or not, writes nothing and changes no
\* order.
C17_GapsPersist ==
    [][\A r \in Slots :
          /\ Deletes(r) => \A j \in DOMAIN store' : store'[j] = store[j]
          /\ (Finds(r) /\ AllOrdered(store)) =>
                /\ store' = store
                /\ reqs'[r].pc = "idle"
                /\ Last'.op = "list" /\ Last'.wrote = {} /\ ~Last'.repaired
                /\ \A i \in 1..Len(Last'.ret) :
                      Last'.ret[i].order = store[Last'.ret[i].id].order]_vars

C17_Witness ==
    /\ Listed /\ Prior.op = "delete" /\ Prior.ok
    /\ DOMAIN store # {}
    /\ AllOrdered(store) /\ ~Dense(store)
    /\ Last.wrote = {}
    /\ Len(Last.ret) = Cardinality(DOMAIN store)

\* A request in slot r gets the answer to its only or last driver call.
Answers(r) ==
    /\ reqs[r].pc \in {"findOne", "findOneAndUpdate", "deleteOne"}
    /\ reqs'[r].pc = "idle"

\* The request rejected in this step, and nothing else, has happened.
Rejected(name, error) ==
    /\ store' = store
    /\ reqs' = reqs
    /\ Last'.op = name /\ Last'.err = error /\ ~Last'.ok /\ Last'.ret = <<>>

\* C18: getTodoById, updateTodo, deleteTodo and toggleTodoComplete with a
\* malformed id fail with the invalid-id error, not with not-found and not
\* with a result, and leave the collection as it is; with a well-formed id
\* that is not in the collection they return null (false for deleteTodo)
\* and raise no error.
C18_MalformedAndAbsent ==
    [][/\ \A r \in Slots : \A s \in Malformed :
            /\ getTodoByIdCall(r, s) => Rejected("get", "invalid-id")
            /\ updateTodoCall(r, s, [completed |-> TRUE]) => Rejected("update", "invalid-id")
            /\ deleteTodoRequest(r, s) => Rejected("delete", "invalid-id")
            /\ toggleTodoCompleteCall(r, s) => Rejected("toggle", "invalid-id")
       /\ \A r \in Slots :
            (Answers(r) /\ reqs[r].ids[1] \notin DOMAIN store) =>
                /\ store' = store
                /\ Last'.op = reqs[r].op
                /\ Last'.err = "" /\ ~Last'.ok /\ Last'.ret = <<>>]_vars

C18_Witness ==
    /\ Quiescent
    /\ Prior.op = "update" /\ Prior.err = "invalid-id"
    /\ Last.op = "update" /\ Last.err = "" /\ ~Last.ok /\ Last.ret = <<>>
    /\ Len(Last.ids) = 1 /\ Last.ids[1] \notin DOMAIN store
    /\ DOMAIN store # {}

\* C19: a create request and an update request whose title is empty or only
\* white space are both rejected with the validation error and create or
\* change no document, so every document in the collection has a non-empty
\* trimmed title.
C19_BlankTitleRejected ==
    /\ [](\A i \in DOMAIN store : store[i].title # <<>> /\ trim(store[i].title) = store[i].title)
    /\ []((Last.op = "update" /\ Has(Last.updates, "title") /\ Last.updates.title = <<>>) =>
              (Last.err = "validation" /\ ~Last.ok))
    /\ [][\A r \in Slots : \A body \in Bodies :
            (Has(body, "title") /\ trim(body.title) = <<>>) =>
                (createTodoRequest(r, body) => Rejected("create", "validation"))]_vars

\* C20: an update request with neither title nor completed is rejected with
\* the validation error before any driver call: the document named, its
\* updatedAt included, and every other document are unchanged.
C20_NothingToUpdate ==
    [][\A r \in Slots : \A s \in IdStrings :
          updateTodoCall(r, s, NoFields) => Rejected("update", "validation")]_vars

C20_Witness ==
    /\ Quiescent /\ Last.op = "update" /\ Last.err = "validation"
    /\ \E i \in DOMAIN store : store[i].updatedAt < now

----------------------------------------------------------------------------
(* The reorder request *)

\* C21: a reorder request whose todoIds is missing, is no array or is an
\* empty array is rejected with the validation error and writes nothing, and
\* a reorderTodos in flight always has a non-empty list of ids.
C21_EmptyReorderRejected ==
    /\ [][\A r \in Slots : \A body \in ReorderBodies :
            (\/ ~Has(body, "todoIds")
             \/ ~body.todoIds.array
             \/ body.todoIds.items = <<>>) =>
                (reorderTodosRequest(r, body) => Rejected("reorder", "validation"))]_vars
    /\ [](\A r \in Slots : reqs[r].op = "reorder" =>
            (Len(reqs[r].ids) > 0 /\ Len(reqs[r].ops) = Len(reqs[r].ids)))

C21_Witness ==
    /\ Quiescent /\ Last.op = "reorder" /\ Last.err = "validation"
    /\ \E i \in DOMAIN store : HasOrder(store[i])
    /\ \E i \in DOMAIN store : ~HasOrder(store[i])

----------------------------------------------------------------------------
(* Driver calls that fail *)

\* The driver call of the request in slot r fails in this step.
Faults(r) ==
    /\ reqs[r].pc # "idle"
    /\ Len(log') = Len(log) + 1
    /\ log'[Len(log')].step = "fault" /\ log'[Len(log')].slot = r

\* The last request was a createTodo whose updateMany succeeded and whose
\* insertOne failed.
InsertFailed ==
    /\ Quiescent /\ Last.op = "create" /\ Last.err = "internal"
    /\ StepNames = <<"updateMany", "fault">>

\* C22: when the updateMany of createTodo succeeds and its insertOne fails,
\* createTodo ends with the failure, without another attempt and without
\* undoing the shift: the shift added 1 to the order of every document, the
\* failure changes nothing, no document is added, and when the orders were a
\* dense rank before the call they are 1..n afterwards, none of them 0.
C22_InsertFails ==
    /\ [][\A r \in Slots :
            /\ (reqs[r].op = "create" /\ reqs[r].pc = "updateMany" /\ reqs'[r].pc = "insertOne") =>
                  /\ DOMAIN store' = DOMAIN store
                  /\ \A i \in DOMAIN store :
                        /\ store'[i].order = store[i].order + 1
                        /\ store'[i].title = store[i].title
                        /\ store'[i].completed = store[i].completed
            /\ (reqs[r].op = "create" /\ reqs[r].pc = "insertOne" /\ Faults(r)) =>
                  /\ store' = store
                  /\ nextId' = nextId
                  /\ reqs'[r] = Idle
                  /\ Last'.op = "create" /\ Last'.err = "internal"
                  /\ ~Last'.ok /\ Last'.ret = <<>>]_vars
    /\ []((InsertFailed /\ log[1].dense) =>
            /\ Orders(store) = 1..Cardinality(DOMAIN store)
            /\ WithOrder(store, 0) = {})

C22_Witness ==
    /\ InsertFailed /\ log[1].dense
    /\ Cardinality(DOMAIN store) = 2
    /\ Orders(store) = {1, 2}

----------------------------------------------------------------------------
(* The status of the response *)

\* res.status(...) of each controller: 400 for a body it refuses and for a
\* BSONError it recognises, 500 for every other error, 404 for null (false
\* for deleteTodo), 201 for a created todo and 200 otherwise.
status(sum) ==
    IF sum.err \in {"validation", "invalid-id"} THEN 400
    ELSE IF sum.err = "internal" THEN 500
    ELSE IF ~sum.ok THEN 404
    ELSE IF sum.op = "create" THEN 201
    ELSE 200

ClientError == 400..499
ServerError == 500..599

\* An array of id strings at least one of which is malformed.
HasMalformed(body) ==
    /\ Has(body, "todoIds") /\ body.todoIds.array
    /\ \E i \in 1..Len(body.todoIds.items) : body.todoIds.items[i] \in Malformed

\* C23: a request with a malformed id is answered with a 4xx status and
\* never with a 5xx status: getTodoById, updateTodo, deleteTodo and
\* toggleTodoComplete with a malformed :id, and reorderTodos with a malformed
\* id anywhere in todoIds.  A driver call that fails is answered with a 5xx
\* status, and a well-formed id that is not in the collection with 404.
C23_InvalidIdIsClientError ==
    [][/\ \A r \in Slots : \A s \in Malformed :
            /\ getTodoByIdCall(r, s) => status(Last') \in ClientError
            /\ updateTodoCall(r, s, [completed |-> TRUE]) => status(Last') \in ClientError
            /\ deleteTodoRequest(r, s) => status(Last') \in ClientError
            /\ toggleTodoCompleteCall(r, s) => status(Last') \in ClientError
       /\ \A r \in Slots : \A body \in ReorderBodies :
            (HasMalformed(body) /\ reorderTodosRequest(r, body)) =>
                status(Last') \in ClientError
       /\ \A r \in Slots : Faults(r) => status(Last') \in ServerError
       /\ \A r \in Slots :
            (Answers(r) /\ ~Faults(r) /\ reqs[r].ids[1] \notin DOMAIN store) =>
                status(Last') = 404]_vars

----------------------------------------------------------------------------
(* The time stamps *)

\* C24: updatedAt is the time of the last operation that changed a field of
\* the document: a document is inserted with updatedAt at the time of its
\* createTodo, every step that changes a field of a document (an update, a
\* toggle, an update of a reorderTodos, the shift of a createTodo) sets its
\* updatedAt to the time of that operation, and updatedAt never decreases.
C24_UpdatedAtRefreshed ==
    [][/\ \A i \in DOMAIN store' \ DOMAIN store : store'[i].updatedAt = now
       /\ \A i \in DOMAIN store \cap DOMAIN store' :
            /\ store'[i].updatedAt >= store[i].updatedAt
            /\ store'[i] # store[i] => store'[i].updatedAt = now]_vars

\* An insertOne is served in this step.
Inserts == \E r \in Slots : reqs[r].pc = "insertOne" /\ reqs'[r].pc = "idle"

\* C25: the id and the createdAt of a document never change: whatever
\* createTodo, getAllTodos (with its repair), updateTodo, toggleTodoComplete
\* and reorderTodos requests run, one after another or interleaved, every
\* document that stays in the collection stays under its id with its
\* createdAt, and an id enters the collection only as the new id of an
\* insertOne.
C25_IdAndCreatedAtFixed ==
    [][/\ \A i \in DOMAIN store \cap DOMAIN store' :
            store'[i].createdAt = store[i].createdAt
       /\ (\A r \in Slots : ~Deletes(r)) => DOMAIN store \subseteq DOMAIN store'
       /\ DOMAIN store' \ DOMAIN store \subseteq (IF Inserts THEN {nextId} ELSE {})
       /\ nextId' >= nextId
       /\ nextId \notin DOMAIN store]_vars

C25_Witness ==
    /\ Quiescent /\ Calls(log) = 2
    /\ Len(CallsOf("updateTodo")) = 1 /\ Len(CallsOf("reorderTodos")) = 1
    /\ \E i \in DOMAIN store :
          /\ store[i].createdAt < store[i].updatedAt
          /\ store[i].title = <<"B">>
          /\ HasOrder(store[i])

----------------------------------------------------------------------------
(* The process *)

\* C26: the server listens, and a request is handled, only after the
\* connectToDatabase of startServer has returned a connected client and db:
\* it starts to listen in the step that call returns.  When that call
\* throws, the process exits with code 1 and the server never listens.
C26_ListenAfterConnect ==
    /\ [](server.pc = "listening" =>
            /\ conn[1].pc = "done"
            /\ conn[1].ret[1] # 0 /\ conn[1].ret[2] # 0
            /\ db # 0)
    /\ [](\A r \in Slots : reqs[r].pc # "idle" => server.pc = "listening")
    /\ [](conn[1].pc = "failed" => (server.pc = "exited" /\ server.code = 1))
    /\ [][(server.pc # "listening" /\ server'.pc = "listening") =>
            (conn[1].pc = "ping" /\ conn'[1].pc = "done")]_vars
    /\ [][server.pc = "exited" => server' = server]_vars

C26_Witness ==
    /\ server.pc = "listening" /\ ~server.closing
    /\ conn[1] = [pc |-> "done", ret |-> <<1, 1>>]
    /\ Listed /\ Len(Last.ret) = 2

\* No call of connectToDatabase has thrown.
NoneFailed == \A c \in Callers : conn[c].pc # "failed"

\* C27: the connection is a singleton: as long as no call fails, however
\* many calls of connectToDatabase are made before a close, and also when a
\* call is made while an earlier one still awaits the connection, at most
\* one MongoClient is constructed and every call returns that client and
\* its db.
C27_ConnectionSingleton ==
    /\ NoneFailed => clients <= 1
    /\ NoneFailed =>
          \A c \in Callers : conn[c].pc = "done" => conn[c].ret = <<1, 1>>

----------------------------------------------------------------------------
(* The frame of updateTodo *)

\* C28: an updateTodo that finds its document changes, of that document,
\* the title when a title was sent, completed when completed was sent, and
\* updatedAt; its order (present or not), its id, its createdAt and the
\* fields not sent stay as they are, and so does every other document.
C28_UpdateFrame ==
    [][\A r \in Slots :
          (reqs[r].op = "update" /\ UpdateWrites(r) /\ reqs[r].ids[1] \in DOMAIN store) =>
              LET id == reqs[r].ids[1]
                  u == reqs[r].updates
                  d == store[id]
                  e == store'[id]
              IN  /\ DOMAIN store' = DOMAIN store
                  /\ \A j \in DOMAIN store \ {id} : store'[j] = store[j]
                  /\ DOMAIN e = DOMAIN d
                  /\ HasOrder(d) => e.order = d.order
                  /\ e.createdAt = d.createdAt
                  /\ e.updatedAt = reqs[r].t0
                  /\ DOMAIN u \subseteq {"title", "completed"}
                  /\ e.title = (IF Has(u, "title") THEN u.title ELSE d.title)
                  /\ e.completed = (IF Has(u, "completed") THEN u.completed
                                    ELSE d.completed)]_vars

C28_Witness ==
    /\ Quiescent /\ Last.op = "update" /\ Last.ok
    /\ DOMAIN Last.updates = {"title"}
    /\ Cardinality(DOMAIN store) = 2
    /\ \A i \in DOMAIN store : HasOrder(store[i])
    /\ \E i \in DOMAIN store : store[i].title = <<"B">> /\ ~store[i].completed
    /\ \E i \in DOMAIN store : store[i].title = <<"A">> /\ store[i].completed

----------------------------------------------------------------------------
(* The rank under createTodo and full reorders *)

\* C29: on a collection that starts empty, when createTodo calls and
\* reorderTodos calls given a permutation of all the ids in the collection
\* run one after another, the orders of the n documents are exactly 0..n-1
\* whenever no request is in flight.
C29_DenseBetweenOperations ==
    Quiescent =>
        /\ Dense(store)
        /\ \A o \in Orders(store) : Cardinality(WithOrder(store, o)) = 1
        /\ Last.op = "reorder" => Holds(store, Last.ids)

C29_Witness ==
    /\ Quiescent /\ Last.op = "create"
    /\ DOMAIN store = {1, 2, 3}
    /\ store[1].order = 1 /\ store[2].order = 2 /\ store[3].order = 0

----------------------------------------------------------------------------
(* The number of documents *)

\* An id that has been in the collection and is there no more.
Deleted(st) == {i \in 1..(nextId - 1) : i \notin DOMAIN st}

\* C30: the number of documents changes only by createTodo, one more when
\* its insertOne is served, and by deleteTodo, one fewer when its deleteOne
\* matches: no step of getAllTodos (its repair writes included), updateTodo,
\* toggleTodoComplete or reorderTodos adds a document, so a document deleted
\* while one of them is in flight is not brought back by their later write.
C30_CountByCreateAndDelete ==
    [][/\ Cardinality(DOMAIN store') =
            Cardinality(DOMAIN store)
                + (IF Inserts THEN 1 ELSE 0)
                - (IF \E r \in Slots : Deletes(r) /\ reqs[r].ids[1] \in DOMAIN store
                   THEN 1 ELSE 0)
       /\ (\A r \in Slots : reqs[r].op \in {"create", "delete"} => reqs'[r] = reqs[r]) =>
             DOMAIN store' = DOMAIN store
       /\ Deleted(store) \subseteq Deleted(store')]_vars

C30_Witness ==
    /\ Quiescent /\ Last.op = "list"
    /\ StepNames = <<"find", "deleteOne", "updateOne", "updateOne">>
    /\ \E i \in Last.wrote : i \in Deleted(store)
    /\ Cardinality(DOMAIN store) = 1

----------------------------------------------------------------------------
(* toggleTodoComplete and a deleteTodo in flight with it *)

\* C31: when the document is deleted between the findOne and the
\* findOneAndUpdate of a toggleTodoComplete, the toggle returns null, not a
\* document, and its write does not bring the document back.
C31_ToggleAfterDelete ==
    [][\A r \in Slots :
          (/\ reqs[r].op = "toggle" /\ UpdateWrites(r)
           /\ reqs[r].ids[1] \notin DOMAIN store) =>
              /\ reqs[r].todos # <<>>
              /\ store' = store
              /\ Last'.op = "toggle" /\ Last'.ids = reqs[r].ids
              /\ Last'.ret = <<>> /\ ~Last'.ok /\ Last'.err = ""]_vars

C31_Witness ==
    /\ Quiescent /\ Last.op = "toggle"
    /\ StepNames = <<"findOne", "deleteOne", "findOneAndUpdate">>
    /\ Last.read # <<>> /\ Last.ret = <<>>
    /\ Last.ids[1] \in Deleted(store)


(* reorderTodos converts every id before it writes *)
MalformedBodies == {body \in ReorderBodies : HasMalformed(body)}

\* C32: a reorderTodos whose id list holds a malformed id anywhere throws
\* the BSONError of the id conversion and writes nothing: no document's order
\* or updatedAt changes, not even of the documents whose ids come before the
\* malformed one in the list. Every step either is such a rejection or is not
\* a reorder request with a malformed id.
C32_MalformedIdWritesNothing ==
    [][\/ /\ store' = store
          /\ reqs' = reqs
          /\ Last'.op = "reorder" /\ ~Last'.ok
          /\ Last'.thrown = "BSONError"
       \/ ~\E r \in Slots :
               /\ CanCall(r)
               /\ \E body \in MalformedBodies : reorderTodosRequest(r, body)]_vars

C32_Witness ==
    /\ Quiescent /\ Last.op = "reorder" /\ Last.thrown = "BSONError"
    /\ Last.ids # <<>> /\ Last.ids[1] \in DOMAIN store
    /\ HasOrder(store[Last.ids[1]]) /\ store[Last.ids[1]].order # 0


(* reorderTodos with an id that occurs more than once *)
\* PUT /api/todos/reorder with lists in which an id may occur again, one
\* request after the other.
IdSeqs(n) == UNION {[1..k -> {ToHex(i) : i \in 1..MaxDocs}] : k \in 1..n}

NextReorderAgain ==
    \/ /\ Quiescent
       /\ \E r \in Slots : \E s \in IdSeqs(MaxDocs) :
             reorderTodosRequest(r, [todoIds |-> [array |-> TRUE, items |-> s]])
    \/ \E r \in Slots : bulkWrite(r)

SpecReorderAgain == InitFrom(LegacyDocs, MaxDocs) /\ [][NextReorderAgain]_vars

\* The positions of id in ids.
Occurrences(ids, id) == {i \in 1..Len(ids) : ids[i] = id}

Max(S) == CHOOSE m \in S : \A n \in S : n <= m

\* C33: after a reorderTodos that ran alone, every stored document named in
\* the list has the zero-based index of the last occurrence of its id as
\* order, also when the id occurs more than once.
C33_LastOccurrenceWins ==
    (Quiescent /\ Last.op = "reorder" /\ Last.ok) =>
        \A id \in Range(Last.ids) \cap DOMAIN store :
            /\ HasOrder(store[id])
            /\ store[id].order = Max(Occurrences(Last.ids, id)) - 1

C33_Witness ==
    /\ Quiescent /\ Last.op = "reorder" /\ Last.ok
    /\ \E id \in DOMAIN store :
          /\ Cardinality(Occurrences(Last.ids, id)) > 1
          /\ 1 \in Occurrences(Last.ids, id)
          /\ store[id].order = Max(Occurrences(Last.ids, id)) - 1
          /\ store[id].order > 0


(* getDatabase and the state of the connection *)
\* Some call of connectToDatabase has returned { client, db }.
Connected == \E c \in Callers : conn[c].pc = "done"

\* C34: in a process that has not closed the connection, getDatabase returns
\* the handle exactly when some connectToDatabase call has completed
\* successfully; while no call has (never called, still connecting or
\* pinging, failed at the connect or at the ping) it throws.
C34_HandleOnlyWhenConnected == getDatabase.throws <=> ~Connected


----------------------------------------------------------------------------
(* The client *)

PendingAdds == Cardinality({c \in Pending : calls[c].op = "add"})

\* One user of the client who waits for each answer before the next action:
\* adds and drags, each served or failed.
NextDrag ==
    \/ \E c \in Pending : loadTodos(c)
    \/ /\ AllSettled /\ ~app.isLoading /\ nextId <= MaxIds
       /\ \E c \in Pending : handleAddTodo(c)
    \/ /\ AllSettled
       /\ \E c \in Pending : \E i, j \in 1..Len(app.todos) : handleDragEnd(c, i, j)
    \/ \E c \in Pending : Served(c)
    \/ \E c \in Pending : Failed(c)
    \/ \E c \in Pending : Resolved(c)

SpecDrag == InitEmpty /\ [][NextDrag]_vars

\* C35: a drag switches the displayed list to the reordered list in the step
\* that sends the request, before any answer; when the request fails the
\* displayed list is again the list displayed immediately before the drag,
\* and when it succeeds the displayed list is the reordered list whose ids
\* were sent.
C35_OptimisticReorder ==
    [][\A c \in Pending :
          /\ \A i, j \in 1..Len(app.todos) :
                handleDragEnd(c, i, j) =>
                    /\ app'.todos = arrayMove(app.todos, i, j)
                    /\ calls'[c].pc = "fetch"
                    /\ calls'[c].sent = app'.todos
                    /\ calls'[c].todos = app.todos
                    /\ store' = store
          /\ (calls[c].op = "reorder" /\ Resolved(c)) =>
                IF calls[c].ok
                THEN /\ app'.todos = calls[c].sent
                     /\ app'.error = app.error
                ELSE /\ app'.todos = calls[c].todos
                     /\ app'.error = "Failed to save order"]_vars

C35_Witness ==
    /\ AllSettled /\ app.error = "Failed to save order"
    /\ Len(app.todos) > 1
    /\ \A i \in 1..(Len(app.todos) - 1) :
          store[app.todos[i].id].order < store[app.todos[i + 1].id].order


\* One client whose user does not wait for the answers: adds, toggles,
\* deletes and drags while other requests of the client are in flight.
NextClient ==
    \/ \E c \in Pending : loadTodos(c)
    \/ /\ ~app.isLoading /\ nextId + PendingAdds <= MaxDocs
       /\ \E c \in Pending : handleAddTodo(c)
    \/ \E c \in Pending : \E id \in TodoIdsOf(app.todos) : handleToggleTodo(c, id)
    \/ \E c \in Pending : \E id \in TodoIdsOf(app.todos) : handleDeleteTodo(c, id)
    \/ \E c \in Pending : \E i, j \in 1..Len(app.todos) : handleDragEnd(c, i, j)
    \/ \E c \in Pending : Served(c)
    \/ \E c \in Pending : Resolved(c)

SpecClient == InitEmpty /\ [][NextClient]_vars

\* C36: once the list is loaded and every add, toggle, delete and reorder of
\* the client has been answered, all of them with success, the ids displayed
\* are the ids in the collection.
C36_DisplayedIdsAreStoredIds ==
    (AllSettled /\ ~app.isLoading /\ app.error = "") =>
        TodoIdsOf(app.todos) = DOMAIN store

====
